---- MODULE Spec2Model ----
(***************************************************************************)
(* A model of the algorithmic core of cv-llm:                              *)
(*   - the tag -> transcript converter (segmentation/convert.py),          *)
(*   - the numeric parser cascade (core/parser.py),                        *)
(*   - the latest-run consolidation (consolidate/base.py).                 *)
(* Python indices are kept 0-based; a Python list is a TLA+ sequence whose *)
(* element i is seq[i + 1].  Optional values are sequences of length 0     *)
(* (None) or 1 (Some(x)).                                                  *)
(***************************************************************************)
EXTENDS Integers, Sequences, FiniteSets, TLC

VARIABLES
    \* ---- segmentation ----
    lines,          \* the raw transcript lines of the current document
    tags,           \* one Optional[Tag] per line
    clusters_cfg,   \* ClustersConfig.clusters, an ordered dict (name, questions)
    stripped,       \* local 'lines' of __call__ after _remove_tag
    all_spans,      \* local 'all_spans' of _fill_transcript: q_id -> Span
    transcript,     \* name -> Cluster.lines (text)
    provenance,     \* name -> source line index of every entry of Cluster.lines
    seg_pc,         \* position inside ConvertTagsToTranscript.__call__
    seg_k,          \* number of clusters already filled
    previous,       \* Optional: what an earlier call of the converter returned
    \* ---- span merging on its own ----
    m_spans,        \* argument 'spans' of _merge_and_sort_overlapping_spans
    m_out,          \* the spans the generator yielded
    m_pc,
    \* ---- numeric parser cascade ----
    generated_text, \* the text returned by the model, a sequence of tokens
    parsers,        \* DefaultScoreParser.parsers
    parser_data,    \* min_score, max_score, force_int, int_tol
    p_i,            \* index of the next sub-parser of the for loop
    p_pc,           \* "loop", "returned" or "raised"
    p_ret,          \* the value returned by __call__
    p_exc,          \* the exception that left __call__, if any
    \* ---- consolidation ----
    c_files,        \* what walk_fn yields, in its order: (a_id, run_id, llm, data)
    c_cfg,          \* ConsolidateConfig
    c_i,            \* number of files the walk has handed over
    result_by_aid,  \* a_id -> run_id -> _IntermediaryResult
    clean_results,  \* a_id -> _CleanResult, the dict comprehension of __call__
    c_k,            \* number of calls of _keep_only_latest made
    df,             \* the columns handed to pd.DataFrame
    c_pc,           \* "call", "done" or "raised"
    c_exc,          \* the exception that left Consolidator.__call__, if any
    \* ---- the extract command ----
    transcript_files, \* the a_id of every file os.walk yields, in its order
    rerun_protocol, \* RerunProtocol
    run_dir,        \* a_id -> Optional content of {run_dir}/{llm}/{a_id}.jsonl
    extracted,      \* the a_id of every call of do_extract, in order
    x_i,            \* number of files the loop of extract has handled
    x_pc,           \* "walk", "done" or "raised"
    x_exc           \* the exception that left extract, if any

seg_vars == <<lines, tags, clusters_cfg, stripped, all_spans, transcript,
              provenance, seg_pc, seg_k, previous>>

m_vars == <<m_spans, m_out, m_pc>>

p_vars == <<generated_text, parsers, parser_data, p_i, p_pc, p_ret, p_exc>>

c_vars == <<c_files, c_cfg, c_i, result_by_aid, clean_results, c_k, df, c_pc,
            c_exc>>

x_vars == <<transcript_files, rerun_protocol, run_dir, extracted, x_i, x_pc,
            x_exc>>

vars == <<seg_vars, m_vars, p_vars, c_vars, x_vars>>

-----------------------------------------------------------------------------
(* Bounds of the model *)
MaxLines == 3
MaxSpans == 3       \* spans handed to one merge
MaxIndex == 3       \* largest line index of such a span
Resolution == 10    \* model ticks per 0.0001 of a score

-----------------------------------------------------------------------------
(* Python helpers *)
None == <<>>
Some(x) == <<x>>
Get(o) == o[1]

\* Python 'x in list'
InList(x, list) == \E k \in 1..Len(list) : list[k] = x

Max(a, b) == IF a >= b THEN a ELSE b

\* every sequence over S of length 0..n
SeqUpTo(S, n) == UNION { [1..k -> S] : k \in 0..n }

-----------------------------------------------------------------------------
(* Input domains of the segmentation model *)

\* The question-id lists a Tag can carry (Tagger._do_tag builds them).
TagIdLists == { <<>>, <<1>>, <<2>>, <<3>>, <<1, 2>> }

\* The substring matched by the primary regex, as a sequence of characters.
MatchString == <<"Q">>

TagChoices ==
    {None} \cup { Some([question_ids |-> ids, match_string |-> MatchString]) :
                  ids \in TagIdLists }

\* Raw line texts: one that carries the marker, one padded with blanks.
LineTexts == { <<"Q", " ", "x">>, <<" ", "y", " ">> }

\* Cluster configurations: ordered (name, questions) pairs.
ClusterConfigs ==
    { << [name |-> "A", questions |-> <<1, 2>>], [name |-> "B", questions |-> <<3>>] >>,
      << [name |-> "A", questions |-> <<2, 1>>], [name |-> "B", questions |-> <<1, 3>>] >>,
      << [name |-> "A", questions |-> <<1>>],    [name |-> "B", questions |-> <<2>>] >>,
      << [name |-> "A", questions |-> <<3, 2, 2>>], [name |-> "B", questions |-> <<>>] >> }

ClusterNames(cfg) == { cfg[k].name : k \in 1..Len(cfg) }

-----------------------------------------------------------------------------
(* str.replace(old, "") and str.strip() on character sequences *)

HasAt(s, p, old) ==
    /\ p + Len(old) - 1 <= Len(s)
    /\ \A k \in 1..Len(old) : s[p + k - 1] = old[k]

RECURSIVE ReplaceFrom(_, _, _)
ReplaceFrom(s, p, old) ==
    IF p > Len(s) THEN <<>>
    ELSE IF HasAt(s, p, old) THEN ReplaceFrom(s, p + Len(old), old)
    ELSE <<s[p]>> \o ReplaceFrom(s, p + 1, old)

str_replace(s, old) == ReplaceFrom(s, 1, old)

IsSpace(c) == c \in {" ", "\n"}

RECURSIVE str_lstrip(_)
str_lstrip(s) ==
    IF Len(s) > 0 /\ IsSpace(Head(s)) THEN str_lstrip(Tail(s)) ELSE s

RECURSIVE str_rstrip(_)
str_rstrip(s) ==
    IF Len(s) > 0 /\ IsSpace(s[Len(s)]) THEN str_rstrip(SubSeq(s, 1, Len(s) - 1)) ELSE s

str_strip(s) == str_rstrip(str_lstrip(s))

-----------------------------------------------------------------------------
(* ConvertTagsToTranscript *)

\* __init__: q_id_to_cluster_map, the last cluster listing a question wins
LastClusterOf(cfg, q) ==
    LET ks == { k \in 1..Len(cfg) : InList(q, cfg[k].questions) }
    IN cfg[CHOOSE k \in ks : \A j \in ks : j <= k].name

q_id_to_cluster_map(cfg) ==
    LET qs == UNION { { cfg[k].questions[j] : j \in 1..Len(cfg[k].questions) } :
                      k \in 1..Len(cfg) }
    IN [q \in qs |-> LastClusterOf(cfg, q)]

_remove_tag(line, index, tgs) ==
    LET tag == tgs[index + 1]
    IN IF tag = None THEN line
       ELSE str_strip(str_replace(line, Get(tag).match_string))

\* FindSpanLoop going on, instead of stopping, at a tag without q_id
RECURSIVE FindSpanLoop_NoBreak(_, _, _, _, _)
FindSpanLoop_NoBreak(q_id, tgs, i, start, end) ==
    IF i >= Len(tgs) THEN <<start, end>>
    ELSE LET tag == tgs[i + 1] IN
         IF tag = None
         THEN FindSpanLoop_NoBreak(q_id, tgs, i + 1, start,
                                   IF start = None THEN None ELSE Some(i))
         ELSE IF ~InList(q_id, Get(tag).question_ids)
         THEN FindSpanLoop_NoBreak(q_id, tgs, i + 1, start, end)
         ELSE IF start = None
         THEN FindSpanLoop_NoBreak(q_id, tgs, i + 1, Some(i), end)
         ELSE FindSpanLoop_NoBreak(q_id, tgs, i + 1, start, Some(i))

\* FindSpanLoop with a blank tag leaving 'end' as it is
RECURSIVE FindSpanLoop_FreezeEnd(_, _, _, _, _)
FindSpanLoop_FreezeEnd(q_id, tgs, i, start, end) ==
    IF i >= Len(tgs) THEN <<start, end>>
    ELSE LET tag == tgs[i + 1] IN
         IF tag = None
         THEN FindSpanLoop_FreezeEnd(q_id, tgs, i + 1, start, end)
         ELSE IF ~InList(q_id, Get(tag).question_ids)
         THEN IF start = None /\ end = None
              THEN FindSpanLoop_FreezeEnd(q_id, tgs, i + 1, start, end)
              ELSE <<start, end>>
         ELSE IF start = None
         THEN FindSpanLoop_FreezeEnd(q_id, tgs, i + 1, Some(i), end)
         ELSE FindSpanLoop_FreezeEnd(q_id, tgs, i + 1, start, Some(i))

\* The loop of _find_span from iteration i on, with the locals start and end.
RECURSIVE FindSpanLoop(_, _, _, _, _)
FindSpanLoop(q_id, tgs, i, start, end) ==
    IF i >= Len(tgs) THEN <<start, end>>
    ELSE LET tag == tgs[i + 1] IN
         IF tag = None
         THEN FindSpanLoop(q_id, tgs, i + 1, start,
                           IF start = None THEN None ELSE Some(i))
         ELSE IF ~InList(q_id, Get(tag).question_ids)
         THEN IF start = None /\ end = None
              THEN FindSpanLoop(q_id, tgs, i + 1, start, end)
              ELSE <<start, end>>
         ELSE IF start = None
         THEN FindSpanLoop(q_id, tgs, i + 1, Some(i), end)
         ELSE FindSpanLoop(q_id, tgs, i + 1, start, Some(i))

\* _find_span with a leading untagged line taken as the start of the span
_find_span_BlankStarts(q_id, tgs) ==
    FindSpanLoop(q_id, tgs, 0,
                 IF tgs # <<>> /\ tgs[1] = None THEN Some(0) ELSE None, None)

_find_span(q_id, tgs) == FindSpanLoop(q_id, tgs, 0, None, None)

_find_all_spans(cfg, tgs) ==
    [q_id \in DOMAIN q_id_to_cluster_map(cfg) |-> _find_span(q_id, tgs)]

RECURSIVE FindClusterSpansLoop(_, _, _)
FindClusterSpansLoop(questions, spans, k) ==
    IF k > Len(questions) THEN <<>>
    ELSE LET sp == spans[questions[k]] IN
         (IF sp[1] # None /\ sp[2] # None
          THEN << <<Get(sp[1]), Get(sp[2])>> >> ELSE <<>>)
         \o FindClusterSpansLoop(questions, spans, k + 1)

_find_cluster_spans(questions, spans) == FindClusterSpansLoop(questions, spans, 1)

\* Python's ordering of 2-tuples
TupleLess(a, b) == a[1] < b[1] \/ (a[1] = b[1] /\ a[2] < b[2])

RECURSIVE InsertSorted(_, _)
InsertSorted(x, s) ==
    IF Len(s) = 0 THEN <<x>>
    ELSE IF TupleLess(x, Head(s)) THEN <<x>> \o s
    ELSE <<Head(s)>> \o InsertSorted(x, Tail(s))

RECURSIVE sorted(_)
sorted(s) == IF Len(s) = 0 THEN <<>> ELSE InsertSorted(Head(s), sorted(Tail(s)))

\* MergeLoop with the gap test made against merged_start
RECURSIVE MergeLoop_CmpStart(_, _, _, _)
MergeLoop_CmpStart(spans, k, merged_start, merged_end) ==
    IF k > Len(spans) THEN << <<merged_start, merged_end>> >>
    ELSE LET start == spans[k][1]
             end   == spans[k][2]
         IN IF start > merged_start
            THEN << <<merged_start, merged_end>> >>
                 \o MergeLoop_CmpStart(spans, k + 1, start, end)
            ELSE MergeLoop_CmpStart(spans, k + 1, merged_start, Max(merged_end, end))

\* The 'for start, end in spans' loop of the generator; its value is the
\* list of the spans it yields.
RECURSIVE MergeLoop(_, _, _, _)
MergeLoop(spans, k, merged_start, merged_end) ==
    IF k > Len(spans) THEN << <<merged_start, merged_end>> >>
    ELSE LET start == spans[k][1]
             end   == spans[k][2]
         IN IF start > merged_end
            THEN << <<merged_start, merged_end>> >> \o MergeLoop(spans, k + 1, start, end)
            ELSE MergeLoop(spans, k + 1, merged_start, Max(merged_end, end))

\* the merge reduced to the sort
Merge_SortOnly(spans) == sorted(spans)

\* the merge keeping the end of the last span instead of the maximum
RECURSIVE MergeLoop_LastEnd(_, _, _, _)
MergeLoop_LastEnd(spans, k, merged_start, merged_end) ==
    IF k > Len(spans) THEN << <<merged_start, merged_end>> >>
    ELSE IF spans[k][1] > merged_end
         THEN << <<merged_start, merged_end>> >>
              \o MergeLoop_LastEnd(spans, k + 1, spans[k][1], spans[k][2])
         ELSE MergeLoop_LastEnd(spans, k + 1, merged_start, spans[k][2])

Merge_LastEnd(spans) ==
    LET s == sorted(spans)
    IN IF Len(s) = 0 THEN <<>> ELSE MergeLoop_LastEnd(s, 2, s[1][1], s[1][2])

_merge_and_sort_overlapping_spans(spans) ==
    LET s == sorted(spans)
    IN IF Len(s) = 0 THEN <<>> ELSE MergeLoop(s, 2, s[1][1], s[1][2])

\* Python's seq[a:b] for 0 <= a
Slice(seq, a, b) == SubSeq(seq, a + 1, IF b < Len(seq) THEN b ELSE Len(seq))

RECURSIVE ExtendLoop(_, _, _, _)
ExtendLoop(cluster_lines, lns, merged, k) ==
    IF k > Len(merged) THEN cluster_lines
    ELSE ExtendLoop(cluster_lines \o Slice(lns, merged[k][1], merged[k][2] + 1),
                    lns, merged, k + 1)

\* _fill_cluster: the new value of cluster.lines
_fill_cluster(cluster_lines, questions, lns, spans) ==
    ExtendLoop(cluster_lines, lns,
               _merge_and_sort_overlapping_spans(_find_cluster_spans(questions, spans)), 1)

\* the sequence 0, 1, ..., n-1: the source index of every line
Indices(n) == [k \in 1..n |-> k - 1]

-----------------------------------------------------------------------------
(* ConvertTagsToTranscript.__call__ as a sequence of steps *)

SegIdle ==
    /\ lines = <<>> /\ tags = <<>> /\ clusters_cfg = <<>>
    /\ stripped = <<>> /\ all_spans = <<>> /\ transcript = <<>>
    /\ provenance = <<>> /\ seg_pc = "off" /\ seg_k = 0 /\ previous = <<>>

MergeIdle == m_spans = <<>> /\ m_out = <<>> /\ m_pc = "off"

ParseIdle ==
    /\ generated_text = <<>> /\ parsers = <<>> /\ parser_data = <<>>
    /\ p_i = 0 /\ p_pc = "off" /\ p_ret = <<>> /\ p_exc = ""

ConsIdle ==
    /\ c_files = <<>> /\ c_cfg = <<>> /\ c_i = 0 /\ result_by_aid = <<>>
    /\ clean_results = <<>> /\ c_k = 0 /\ df = <<>> /\ c_pc = "off" /\ c_exc = ""

ExtractIdle ==
    /\ transcript_files = <<>> /\ rerun_protocol = "" /\ run_dir = <<>>
    /\ extracted = <<>> /\ x_i = 0 /\ x_pc = "off" /\ x_exc = ""

SegInit ==
    /\ MergeIdle
    /\ ParseIdle
    /\ ConsIdle
    /\ ExtractIdle
    /\ \E n \in 0..MaxLines :
          /\ lines \in [1..n -> LineTexts]
          /\ tags \in [1..n -> TagChoices]
    /\ clusters_cfg \in ClusterConfigs
    /\ stripped = <<>>
    /\ all_spans = <<>>
    /\ transcript = <<>>
    /\ provenance = <<>>
    /\ seg_pc = "call"
    /\ seg_k = 0
    /\ previous = <<>>

\* Call with the Cluster objects of an earlier call used again
Call_KeepsClusters ==
    /\ seg_pc = "call"
    /\ transcript' = IF transcript = <<>>
                     THEN [name \in ClusterNames(clusters_cfg) |-> <<>>]
                     ELSE transcript
    /\ provenance' = IF provenance = <<>>
                     THEN [name \in ClusterNames(clusters_cfg) |-> <<>>]
                     ELSE provenance
    /\ stripped' = [k \in 1..Len(lines) |-> _remove_tag(lines[k], k - 1, tags)]
    /\ seg_pc' = "find_all_spans"
    /\ UNCHANGED <<lines, tags, clusters_cfg, all_spans, seg_k, previous, m_vars,
                   p_vars, c_vars, x_vars>>

\* transcript[name] = Cluster(data); lines = [_remove_tag(...) ...]
Call ==
    /\ seg_pc = "call"
    /\ transcript' = [name \in ClusterNames(clusters_cfg) |-> <<>>]
    /\ provenance' = [name \in ClusterNames(clusters_cfg) |-> <<>>]
    /\ stripped' = [k \in 1..Len(lines) |-> _remove_tag(lines[k], k - 1, tags)]
    /\ seg_pc' = "find_all_spans"
    /\ UNCHANGED <<lines, tags, clusters_cfg, all_spans, seg_k, previous, m_vars, p_vars, c_vars,
                 x_vars>>

FindAllSpans ==
    /\ seg_pc = "find_all_spans"
    /\ all_spans' = _find_all_spans(clusters_cfg, tags)
    /\ seg_pc' = "fill"
    /\ seg_k' = 0
    /\ UNCHANGED <<lines, tags, clusters_cfg, stripped, transcript, provenance,
                   previous, m_vars, p_vars, c_vars, x_vars>>

\* FillCluster with a question's span going only to the cluster the
\* reverse index keeps for it
FillCluster_OwnedOnly ==
    /\ seg_pc = "fill"
    /\ seg_k < Len(clusters_cfg)
    /\ LET c == clusters_cfg[seg_k + 1]
           Owned(q) == q_id_to_cluster_map(clusters_cfg)[q] = c.name
           owned == SelectSeq(c.questions, Owned)
       IN
         /\ transcript' = [transcript EXCEPT ![c.name] =
                _fill_cluster(@, owned, stripped, all_spans)]
         /\ provenance' = [provenance EXCEPT ![c.name] =
                _fill_cluster(@, owned, Indices(Len(stripped)), all_spans)]
    /\ seg_k' = seg_k + 1
    /\ UNCHANGED <<lines, tags, clusters_cfg, stripped, all_spans, seg_pc,
                   previous, m_vars, p_vars, c_vars, x_vars>>

\* one iteration of 'for cluster in transcript.values()'
FillCluster ==
    /\ seg_pc = "fill"
    /\ seg_k < Len(clusters_cfg)
    /\ LET c == clusters_cfg[seg_k + 1] IN
         /\ transcript' = [transcript EXCEPT ![c.name] =
                _fill_cluster(@, c.questions, stripped, all_spans)]
         /\ provenance' = [provenance EXCEPT ![c.name] =
                _fill_cluster(@, c.questions, Indices(Len(stripped)), all_spans)]
    /\ seg_k' = seg_k + 1
    /\ UNCHANGED <<lines, tags, clusters_cfg, stripped, all_spans, seg_pc,
                   previous, m_vars, p_vars, c_vars, x_vars>>

Return ==
    /\ seg_pc = "fill"
    /\ seg_k = Len(clusters_cfg)
    /\ seg_pc' = "done"
    /\ UNCHANGED <<lines, tags, clusters_cfg, stripped, all_spans, transcript,
                   provenance, seg_k, previous, m_vars, p_vars, c_vars, x_vars>>

SegNext == Call \/ FindAllSpans \/ FillCluster \/ Return

Spec == SegInit /\ [][SegNext]_vars

-----------------------------------------------------------------------------
(* _merge_and_sort_overlapping_spans applied to arbitrary non-null spans *)

SpanSet == { sp \in (0..MaxIndex) \X (0..MaxIndex) : sp[1] <= sp[2] }

\* the two examples of the specification
ExampleSpans == { << <<2, 5>>, <<4, 7>> >>, << <<2, 3>>, <<5, 6>> >> }

MergeInit ==
    /\ SegIdle
    /\ ParseIdle
    /\ ConsIdle
    /\ ExtractIdle
    /\ m_spans \in SeqUpTo(SpanSet, MaxSpans) \cup ExampleSpans
    /\ m_out = <<>>
    /\ m_pc = "call"

Merge ==
    /\ m_pc = "call"
    /\ m_out' = _merge_and_sort_overlapping_spans(m_spans)
    /\ m_pc' = "done"
    /\ UNCHANGED <<m_spans, seg_vars, p_vars, c_vars, x_vars>>

MergeNext == Merge

SpecMerge == MergeInit /\ [][MergeNext]_vars

-----------------------------------------------------------------------------
(* Properties of the segmentation *)

\* the tag of line i lists question q
TagContains(tgs, i, q) ==
    tgs[i + 1] # None /\ InList(q, Get(tgs[i + 1]).question_ids)

HitsOf(tgs, q) == { i \in 0..(Len(tgs) - 1) : TagContains(tgs, i, q) }

SetMin(S) == CHOOSE x \in S : \A y \in S : x <= y

Covers(sp, i) == sp[1] <= i /\ i <= sp[2]

SpansComputed == seg_pc \in {"fill", "done"}

\* C2: the span of a question is (None, None) iff no tag lists it, and is
\* otherwise an inclusive pair start <= end whose start is the first line
\* whose tag lists the question.
C2_SpanNoneIffNeverTagged ==
    SpansComputed =>
        \A q \in DOMAIN all_spans :
            LET sp == all_spans[q]
                hits == HitsOf(tags, q)
            IN IF hits = {} THEN sp = <<None, None>>
               ELSE /\ sp[1] # None
                    /\ sp[2] # None
                    /\ Get(sp[1]) <= Get(sp[2])
                    /\ Get(sp[1]) = SetMin(hits)

\* C3: no cluster holds more lines than the document, and every line of a
\* cluster is the tag-stripped text of a line of the document.
C3_ClusterLinesBounded ==
    seg_pc \in {"find_all_spans", "fill", "done"} =>
        \A name \in DOMAIN transcript :
            /\ Len(transcript[name]) <= Len(lines)
            /\ \A k \in 1..Len(transcript[name]) :
                  \E i \in 1..Len(lines) :
                      transcript[name][k] = _remove_tag(lines[i], i - 1, tags)

\* a cluster receives every line of a document of at least two lines, one of
\* them tagged, and two of its questions have overlapping spans
C3_Witness ==
    /\ seg_pc = "done"
    /\ Len(lines) >= 2
    /\ \E name \in DOMAIN transcript : Len(transcript[name]) = Len(lines)
    /\ \E i \in 1..Len(lines) : tags[i] # None /\ stripped[i] # lines[i]
    /\ \E q1, q2 \in DOMAIN all_spans :
          /\ q1 # q2
          /\ q_id_to_cluster_map(clusters_cfg)[q1] = q_id_to_cluster_map(clusters_cfg)[q2]
          /\ all_spans[q1][2] # None /\ all_spans[q2][2] # None
          /\ Get(all_spans[q2][1]) <= Get(all_spans[q1][2])
          /\ Get(all_spans[q1][1]) <= Get(all_spans[q2][1])

\* C5: the lines of a cluster come from strictly ascending line indices.
C5_ClusterLinesAscending ==
    seg_pc \in {"fill", "done"} =>
        \A name \in DOMAIN provenance :
            \A k \in 1..(Len(provenance[name]) - 1) :
                provenance[name][k] < provenance[name][k + 1]

\* a cluster whose questions are listed in descending order and whose spans
\* overlap has been filled with at least three lines
C5_Witness ==
    /\ seg_pc = "done"
    /\ \E k \in 1..Len(clusters_cfg) :
          LET c == clusters_cfg[k] IN
          /\ Len(c.questions) >= 2
          /\ c.questions[1] > c.questions[2]
          /\ Len(provenance[c.name]) >= 3
          /\ all_spans[c.questions[1]][2] # None
          /\ all_spans[c.questions[2]][2] # None
          /\ Get(all_spans[c.questions[1]][1]) <= Get(all_spans[c.questions[2]][2])
          /\ Get(all_spans[c.questions[2]][1]) <= Get(all_spans[c.questions[1]][1])

\* C6: a line whose tag lists several questions lies in the span of each of
\* them and its text is among the lines of every cluster owning one of them.
C6_MultiTagLineReplicated ==
    seg_pc = "done" =>
        \A i \in 0..(Len(tags) - 1) :
            (tags[i + 1] # None /\ Len(Get(tags[i + 1]).question_ids) >= 2) =>
                \A q \in DOMAIN all_spans :
                    TagContains(tags, i, q) =>
                        /\ all_spans[q][1] # None
                        /\ all_spans[q][2] # None
                        /\ Get(all_spans[q][1]) <= i
                        /\ i <= Get(all_spans[q][2])
                        /\ \A k \in 1..Len(clusters_cfg) :
                              InList(q, clusters_cfg[k].questions) =>
                                  InList(i, provenance[clusters_cfg[k].name])

-----------------------------------------------------------------------------
(* Properties of the span merge *)

CoveredBy(spans) ==
    { i \in 0..(2 * MaxIndex + 2) : \E k \in 1..Len(spans) : Covers(spans[k], i) }

\* C4: spans that touch or overlap coalesce, spans separated by an uncovered
\* index stay separate, and the result is disjoint, strictly ascending and
\* covers exactly the indices the input covers.
C4_MergeIsDisjointOrderedUnion ==
    m_pc = "done" =>
        /\ \A k \in 1..Len(m_out) : m_out[k][1] <= m_out[k][2]
        /\ \A k \in 1..(Len(m_out) - 1) : m_out[k][2] < m_out[k + 1][1]
        /\ CoveredBy(m_out) = CoveredBy(m_spans)
        /\ \A a, b \in 1..Len(m_spans) :
              (m_spans[a][1] <= m_spans[b][1] /\ m_spans[b][1] <= m_spans[a][2]) =>
                  \E k \in 1..Len(m_out) :
                      /\ Covers(m_out[k], m_spans[a][1]) /\ Covers(m_out[k], m_spans[a][2])
                      /\ Covers(m_out[k], m_spans[b][1]) /\ Covers(m_out[k], m_spans[b][2])
        /\ \A a, b \in 1..Len(m_spans) :
              (\E x \in (m_spans[a][2] + 1)..(m_spans[b][1] - 1) : x \notin CoveredBy(m_spans)) =>
                  ~ \E k \in 1..Len(m_out) :
                      Covers(m_out[k], m_spans[a][2]) /\ Covers(m_out[k], m_spans[b][1])

\* (2,5),(4,7) has merged into (2,7)
C4_Witness ==
    /\ m_pc = "done"
    /\ m_spans = << <<2, 5>>, <<4, 7>> >>
    /\ m_out = << <<2, 7>> >>

-----------------------------------------------------------------------------
(* Texts and Python values of the parser cascade                           *)
(*                                                                         *)
(* A text is a sequence of tokens: single characters, and whole words for  *)
(* the words the regular expressions name.  A score is a number of ticks,  *)
(* Scale ticks to 1.0, so that 0.0001 (the default int_tol) and values     *)
(* half a tolerance away from a whole number are exact.                    *)

Scale == 10000 * Resolution

Quote == "\""

\* a run of 400 digits '9', one token
BigDigits == "9x400"

Digits == {"0", "1", "2", "3", "5", "7", "8", "9"}

DigitVal(c) ==
    CASE c = "0" -> 0 [] c = "1" -> 1 [] c = "2" -> 2 [] c = "3" -> 3
      [] c = "5" -> 5 [] c = "7" -> 7 [] c = "8" -> 8 [] c = "9" -> 9

IsDigit(c) == c \in Digits \cup {BigDigits}

\* \w of the regular expressions
IsWord(c) == IsDigit(c) \/ c \in {"Score", "score", "Answer", "is", "inf", "x"}

\* the literal 'score' under re.IGNORECASE
IsScoreWord(c) == c \in {"Score", "score"}

PyNone == [kind |-> "NoneType", v |-> 0, s |-> <<>>]
PyFloat(x) == [kind |-> "float", v |-> x, s |-> <<>>]
PyInf == [kind |-> "float_inf", v |-> 0, s |-> <<>>]
PyInt(x) == [kind |-> "int", v |-> x, s |-> <<>>]
PyBigInt == [kind |-> "int_big", v |-> 0, s |-> <<>>]
PyStr(str) == [kind |-> "str", v |-> 0, s |-> str]
PyDict == [kind |-> "dict", v |-> 0, s |-> <<>>]

At(t, p) == IF p >= 1 /\ p <= Len(t) THEN t[p] ELSE "<eos>"

\* first position >= p that does not satisfy the class (Len + 1 if none)
RECURSIVE SkipWs(_, _)
SkipWs(t, p) == IF IsSpace(At(t, p)) THEN SkipWs(t, p + 1) ELSE p

RECURSIVE WordRunEnd(_, _)
WordRunEnd(t, p) == IF IsWord(At(t, p)) THEN WordRunEnd(t, p + 1) ELSE p

RECURSIVE DigitRunEnd(_, _)
DigitRunEnd(t, p) == IF IsDigit(At(t, p)) THEN DigitRunEnd(t, p + 1) ELSE p

OptTok(t, p, c) == IF At(t, p) = c THEN p + 1 ELSE p

RECURSIVE Pow10(_)
Pow10(n) == IF n = 0 THEN 1 ELSE 10 * Pow10(n - 1)

RECURSIVE DecVal(_)
DecVal(ds) ==
    IF Len(ds) = 0 THEN 0
    ELSE 10 * DecVal(SubSeq(ds, 1, Len(ds) - 1)) + DigitVal(ds[Len(ds)])

HasBig(ds) == \E k \in 1..Len(ds) : ds[k] = BigDigits

\* ticks of n / 10^len; Scale = 10^4 * Resolution
ScaledFraction(n, len) ==
    IF len <= 4 THEN n * Resolution * Pow10(4 - len)
    ELSE (n * Resolution) \div Pow10(len - 4)

\* ticks of the fraction 0.ds; 400 nines after k digits round up to the next
\* k-digit fraction
FracTicks(ds) ==
    IF HasBig(ds)
    THEN LET k == CHOOSE j \in 1..Len(ds) :
                      ds[j] = BigDigits /\ \A i \in 1..(j - 1) : ds[i] # BigDigits
         IN ScaledFraction(DecVal(SubSeq(ds, 1, k - 1)) + 1, k - 1)
    ELSE ScaledFraction(DecVal(ds), Len(ds))

\* the float of the decimal numeral int_part.frac_part
NumeralToFloat(int_part, frac_part) ==
    IF HasBig(int_part) THEN PyInf
    ELSE PyFloat(DecVal(int_part) * Scale + FracTicks(frac_part))

\* float(str): [exc, val]
str_to_float(str) ==
    LET t == str_strip(str)
        e == DigitRunEnd(t, 1)
        f == DigitRunEnd(t, e + 1)
    IN IF t = <<"inf">> THEN [exc |-> "", val |-> PyInf]
       ELSE IF Len(t) >= 1 /\ e > Len(t)
       THEN [exc |-> "", val |-> NumeralToFloat(t, <<>>)]
       ELSE IF At(t, e) = "." /\ f > Len(t) /\ Len(t) >= 2
       THEN [exc |-> "", val |-> NumeralToFloat(SubSeq(t, 1, e - 1), SubSeq(t, e + 1, Len(t)))]
       ELSE [exc |-> "ValueError", val |-> PyNone]

\* Python's float(x): [exc, val]
float(x) ==
    CASE x.kind \in {"float", "float_inf"} -> [exc |-> "", val |-> x]
      [] x.kind = "int" -> [exc |-> "", val |-> PyFloat(x.v)]
      [] x.kind = "int_big" -> [exc |-> "OverflowError", val |-> PyNone]
      [] x.kind = "str" -> str_to_float(x.s)
      [] OTHER -> [exc |-> "TypeError", val |-> PyNone]

\* Python's int(x) of a float, truncating toward zero: [exc, val]
int(x) ==
    IF x.kind = "float_inf" THEN [exc |-> "OverflowError", val |-> PyNone]
    ELSE [exc |-> "",
          val |-> PyInt(IF x.v >= 0 THEN (x.v \div Scale) * Scale
                        ELSE -(((-x.v) \div Scale) * Scale))]

abs(a) == IF a >= 0 THEN a ELSE -a

-----------------------------------------------------------------------------
(* json.loads on token texts: objects with at most one member, strings,    *)
(* numbers (the texts hold no ',' '[' or literal names)                    *)

JsonFail == [ok |-> FALSE, val |-> PyNone, next |-> 0,
             has_key |-> FALSE, key |-> <<>>, member |-> PyNone]

JsonPlain(val, next) == [ok |-> TRUE, val |-> val, next |-> next,
                         has_key |-> FALSE, key |-> <<>>, member |-> PyNone]

\* a string starts at p: it ends at the next quote; control characters are
\* not allowed in it
JsonString(t, p) ==
    LET qs == { q \in (p + 1)..Len(t) : t[q] = Quote }
    IN IF At(t, p) # Quote \/ qs = {} THEN JsonFail
       ELSE LET q == SetMin(qs)
            IN IF \E j \in (p + 1)..(q - 1) : t[j] = "\n" THEN JsonFail
               ELSE JsonPlain(PyStr(SubSeq(t, p + 1, q - 1)), q + 1)

\* (0|[1-9][0-9]*)(\.[0-9]+)? at p
JsonNumber(t, p) ==
    LET e0 == DigitRunEnd(t, p)
        e  == IF At(t, p) = "0" THEN p + 1 ELSE e0
        f  == DigitRunEnd(t, e + 1)
    IN IF e0 = p THEN JsonFail
       ELSE IF At(t, e) = "." /\ f > e + 1
       THEN JsonPlain(NumeralToFloat(SubSeq(t, p, e - 1), SubSeq(t, e + 1, f - 1)), f)
       ELSE JsonPlain(IF HasBig(SubSeq(t, p, e - 1)) THEN PyBigInt
                      ELSE PyInt(DecVal(SubSeq(t, p, e - 1)) * Scale), e)

RECURSIVE JsonValue(_, _)

\* '}' is expected at p3, after the member's value v
JsonObjectEnd(t, key, v, p3) ==
    IF At(t, p3) # "}" THEN JsonFail
    ELSE [ok |-> TRUE, val |-> PyDict, next |-> p3 + 1,
          has_key |-> TRUE, key |-> key, member |-> v.val]

JsonObjectValue(t, key, v) ==
    IF ~v.ok THEN JsonFail ELSE JsonObjectEnd(t, key, v, SkipWs(t, v.next))

\* ':' is expected at p2, after the key k
JsonObjectColon(t, k, p2) ==
    IF At(t, p2) # ":" THEN JsonFail
    ELSE JsonObjectValue(t, k.val.s, JsonValue(t, SkipWs(t, p2 + 1)))

JsonObjectKey(t, k) ==
    IF ~k.ok THEN JsonFail ELSE JsonObjectColon(t, k, SkipWs(t, k.next))

\* the object whose first token after '{' and whitespace is at p1
JsonObject(t, p1) ==
    IF At(t, p1) = "}" THEN JsonPlain(PyDict, p1 + 1)
    ELSE JsonObjectKey(t, JsonString(t, p1))

JsonValue(t, p) ==
    IF At(t, p) = Quote THEN JsonString(t, p)
    ELSE IF IsDigit(At(t, p)) THEN JsonNumber(t, p)
    ELSE IF At(t, p) = "{" THEN JsonObject(t, SkipWs(t, p + 1))
    ELSE JsonFail

\* the whole string is one value
JsonWhole(str, v) ==
    IF v.ok /\ SkipWs(str, v.next) > Len(str) THEN v ELSE JsonFail

json_loads(str) == JsonWhole(str, JsonValue(str, SkipWs(str, 1)))

\* re.findall of ({.*?}): '.' does not match a newline
RECURSIVE FindAllFrom(_, _)
FindAllFrom(t, p) ==
    LET starts == { a \in p..Len(t) :
                      /\ t[a] = "{"
                      /\ \E b \in (a + 1)..Len(t) :
                            t[b] = "}" /\ \A j \in (a + 1)..(b - 1) : t[j] # "\n" }
    IN IF starts = {} THEN <<>>
       ELSE LET a == SetMin(starts)
                b == SetMin({ c \in (a + 1)..Len(t) : t[c] = "}" })
            IN <<SubSeq(t, a, b)>> \o FindAllFrom(t, b + 1)

\* the for loop of JSONParser.__call__ from candidate k on
RECURSIVE JSONParserLoop(_, _, _)

\* json.loads(string)[self.schema_key], r being json.loads(strings[k])
JSONParserTry(schema_key, strings, k, r) ==
    IF r.ok /\ r.has_key /\ r.key = schema_key THEN r.member
    ELSE JSONParserLoop(schema_key, strings, k + 1)

JSONParserLoop(schema_key, strings, k) ==
    IF k > Len(strings) THEN PyNone
    ELSE JSONParserTry(schema_key, strings, k, json_loads(strings[k]))

JSONParser(schema_key, text) ==
    JSONParserLoop(schema_key, <<text>> \o FindAllFrom(text, 1), 1)

FloatMatchParser(text) ==
    LET r == str_to_float(text)
    IN IF r.exc = "" THEN r.val ELSE PyNone

-----------------------------------------------------------------------------
(* PatternMatchParser: re.search of the patterns of default_sub_parsers    *)

NoMatch == [ok |-> FALSE, grp |-> <<>>, end |-> 0]

\* \s*"?(\w+)"? at p
CaptureTail(t, p) ==
    LET p2 == OptTok(t, SkipWs(t, p), Quote)
        e  == WordRunEnd(t, p2)
    IN IF e > p2 THEN [ok |-> TRUE, grp |-> SubSeq(t, p2, e - 1), end |-> OptTok(t, e, Quote)]
       ELSE NoMatch

\* "?score"?\s*: with the word 'score' at k; the position after the colon, or 0
ScoreColon(t, k) ==
    LET p == SkipWs(t, OptTok(t, k + 1, Quote))
    IN IF IsScoreWord(At(t, k)) /\ At(t, p) = ":" THEN p + 1 ELSE 0

\* the match of a pattern whose keyword (or opening brace) is at k
MatchAt(pattern, t, k) ==
    CASE pattern = "\"?score\"?\\s*:\\s*\"?(\\w+)\"?" ->
            IF ScoreColon(t, k) > 0 THEN CaptureTail(t, ScoreColon(t, k)) ELSE NoMatch
      [] pattern = "Score:\\s*\"?(\\w+)\"?" ->
            IF IsScoreWord(At(t, k)) /\ At(t, k + 1) = ":"
            THEN CaptureTail(t, k + 2) ELSE NoMatch
      [] pattern = "Answer:\\s*\"?(\\w+)\"?" ->
            IF At(t, k) = "Answer" /\ At(t, k + 1) = ":"
            THEN CaptureTail(t, k + 2) ELSE NoMatch
      [] pattern = "{\\s*\"?score\"?\\s*:\\s*\"?(\\w+)\"?\\s*}" ->
            LET w == OptTok(t, SkipWs(t, k + 1), Quote)
                c == IF ScoreColon(t, w) > 0 THEN CaptureTail(t, ScoreColon(t, w)) ELSE NoMatch
            IN IF At(t, k) = "{" /\ c.ok /\ At(t, SkipWs(t, c.end)) = "}" THEN c ELSE NoMatch
      [] pattern = "{\\s*\"?score\"?\\s*:\\s*\"(\\w+)\"\\s*}?" ->
            LET w  == OptTok(t, SkipWs(t, k + 1), Quote)
                p1 == SkipWs(t, ScoreColon(t, w))
                e  == WordRunEnd(t, p1 + 1)
            IN IF /\ At(t, k) = "{" /\ ScoreColon(t, w) > 0
                  /\ At(t, p1) = Quote /\ e > p1 + 1 /\ At(t, e) = Quote
               THEN [ok |-> TRUE, grp |-> SubSeq(t, p1 + 1, e - 1), end |-> e + 1]
               ELSE NoMatch
      [] pattern = "score is:?\\s*\"?(\\w+)\"?" ->
            IF IsScoreWord(At(t, k)) /\ At(t, k + 1) = " " /\ At(t, k + 2) = "is"
            THEN CaptureTail(t, OptTok(t, k + 3, ":")) ELSE NoMatch
      [] pattern = "^\\s*\"?(\\w+)\"?\\n" ->
            LET c == CaptureTail(t, 1)
            IN IF k = 1 /\ c.ok /\ At(t, c.end) = "\n" THEN c ELSE NoMatch

\* re.search(pattern, text, flags=re.IGNORECASE).group(1), None without match
PatternMatchParser(pattern, text) ==
    LET ks == { k \in 1..Len(text) : MatchAt(pattern, text, k).ok }
    IN IF ks = {} THEN PyNone
       ELSE PyStr(MatchAt(pattern, text, SetMin(ks)).grp)

default_sub_parsers ==
    << [cls |-> "FloatMatchParser", arg |-> ""],
       [cls |-> "JSONParser", arg |-> "score"],
       [cls |-> "PatternMatchParser", arg |-> "\"?score\"?\\s*:\\s*\"?(\\w+)\"?"],
       [cls |-> "PatternMatchParser", arg |-> "Score:\\s*\"?(\\w+)\"?"],
       [cls |-> "PatternMatchParser", arg |-> "Answer:\\s*\"?(\\w+)\"?"],
       [cls |-> "PatternMatchParser", arg |-> "{\\s*\"?score\"?\\s*:\\s*\"?(\\w+)\"?\\s*}"],
       [cls |-> "PatternMatchParser", arg |-> "{\\s*\"?score\"?\\s*:\\s*\"(\\w+)\"\\s*}?"],
       [cls |-> "PatternMatchParser", arg |-> "score is:?\\s*\"?(\\w+)\"?"],
       [cls |-> "PatternMatchParser", arg |-> "^\\s*\"?(\\w+)\"?\\n"] >>

\* parser(generated_text)
CallParser(parser, text) ==
    CASE parser.cls = "FloatMatchParser" -> FloatMatchParser(text)
      [] parser.cls = "JSONParser" -> JSONParser(<<parser.arg>>, text)
      [] parser.cls = "PatternMatchParser" -> PatternMatchParser(parser.arg, text)

-----------------------------------------------------------------------------
(* DefaultScoreParser.__call__ *)

\* a <= b on floats
FloatLeq(a, b) ==
    IF a.kind = "float_inf" THEN b.kind = "float_inf"
    ELSE b.kind = "float_inf" \/ a.v <= b.v

Continue == [act |-> "continue", val |-> PyNone, exc |-> ""]
ReturnScore(score) == [act |-> "return", val |-> score, exc |-> ""]
Raise(exc) == [act |-> "raise", val |-> PyNone, exc |-> exc]

\* IntCheck with the distance taken to the nearest whole number
IntCheck_Nearest(score, cfg) ==
    LET n == int(score)
        below == abs(n.val.v - score.v)
    IN IF n.exc # "" THEN Raise(n.exc)
       ELSE IF below < cfg.int_tol \/ Scale - below < cfg.int_tol
       THEN ReturnScore(score)
       ELSE Continue

\* the integer test of __call__: abs(int(score) - score) < self.int_tol
IntCheck(score, cfg) ==
    LET n == int(score)
    IN IF n.exc # "" THEN Raise(n.exc)
       ELSE IF abs(n.val.v - score.v) < cfg.int_tol THEN ReturnScore(score)
       ELSE Continue

\* the body of the for loop for one sub-parser
Iteration(parser, text, cfg) ==
    LET f == float(CallParser(parser, text))
    IN IF f.exc \in {"TypeError", "ValueError"} THEN Continue
       ELSE IF f.exc # "" THEN Raise(f.exc)
       ELSE IF FloatLeq(cfg.min_score, f.val) /\ FloatLeq(f.val, cfg.max_score)
       THEN IF cfg.force_int THEN IntCheck(f.val, cfg) ELSE ReturnScore(f.val)
       ELSE Continue

\* ParserData: the defaults, and a 0..5 scale with and without force_int
ParserConfigs ==
    { [min_score |-> PyFloat(0), max_score |-> PyFloat(Scale),
       force_int |-> FALSE, int_tol |-> Resolution],
      [min_score |-> PyFloat(0), max_score |-> PyFloat(5 * Scale),
       force_int |-> FALSE, int_tol |-> Resolution],
      [min_score |-> PyFloat(0), max_score |-> PyFloat(5 * Scale),
       force_int |-> TRUE, int_tol |-> Resolution],
      [min_score |-> PyFloat(0), max_score |-> PyFloat(5 * Scale),
       force_int |-> TRUE, int_tol |-> 0] }

\* the sub_parsers argument: None (the defaults) or a list of the caller
ParserLists ==
    { default_sub_parsers,
      << [cls |-> "PatternMatchParser", arg |-> "Answer:\\s*\"?(\\w+)\"?"],
         [cls |-> "FloatMatchParser", arg |-> ""] >> }

\* Generated texts: opening ++ label ++ separator ++ value ++ closing
TextOpen == { <<>>, <<"{">>, <<"{", Quote>>, <<" ">> }
TextLabel == { <<>>, <<"score">>, <<"Score">>, <<"Answer">>, <<"score", " ", "is">> }
TextSep == { <<>>, <<":">>, <<":", " ">>, <<Quote, ":", " ">> }
TextValue ==
    { <<>>, <<"1">>, <<"3">>, <<"7">>, <<"1", ".", "5">>, <<"0", ".", "8">>,
      <<Quote, "3", Quote>>, <<"x">>, <<"inf">>, <<BigDigits>>,
      <<"0", ".", "9", "9", "9", "9", "5">>, <<"1", ".", "0", "0", "0", "0", "5">> }
TextClose == { <<>>, <<"}">>, <<"\n">>, <<"}", " ", "Answer", ":", " ", "1">> }

Texts ==
    { a \o b \o c \o d \o e :
        a \in TextOpen, b \in TextLabel, c \in TextSep, d \in TextValue, e \in TextClose }

ParseInit ==
    /\ SegIdle
    /\ MergeIdle
    /\ ConsIdle
    /\ ExtractIdle
    /\ generated_text \in Texts
    /\ parsers \in ParserLists
    /\ parser_data \in ParserConfigs
    /\ p_i = 0
    /\ p_pc = "loop"
    /\ p_ret = PyNone
    /\ p_exc = ""

\* one iteration of 'for parser in self.parsers'
TryParser ==
    /\ p_pc = "loop"
    /\ p_i < Len(parsers)
    /\ LET r == Iteration(parsers[p_i + 1], generated_text, parser_data) IN
         /\ p_pc' = CASE r.act = "continue" -> "loop"
                      [] r.act = "return" -> "returned"
                      [] r.act = "raise" -> "raised"
         /\ p_i' = IF r.act = "continue" THEN p_i + 1 ELSE p_i
         /\ p_ret' = r.val
         /\ p_exc' = r.exc
    /\ UNCHANGED <<generated_text, parsers, parser_data, seg_vars, m_vars, c_vars,
                 x_vars>>

\* the 'return None' after the loop
Exhausted ==
    /\ p_pc = "loop"
    /\ p_i = Len(parsers)
    /\ p_pc' = "returned"
    /\ p_ret' = PyNone
    /\ UNCHANGED <<generated_text, parsers, parser_data, p_i, p_exc, seg_vars, m_vars, c_vars,
                 x_vars>>

ParseNext == TryParser \/ Exhausted

SpecParse == ParseInit /\ [][ParseNext]_vars

-----------------------------------------------------------------------------
(* Properties of the cascade *)

\* float(score) of the k-th sub-parser's output: [exc, val]
Candidate(k) == float(CallParser(parsers[k], generated_text))

\* self.min_score <= score <= self.max_score
InRange(x) ==
    FloatLeq(parser_data.min_score, x) /\ FloatLeq(x, parser_data.max_score)

\* the integer test as __call__ computes it
PassesIntTest(x) ==
    /\ int(x).exc = ""
    /\ abs(int(x).val.v - x.v) < parser_data.int_tol

\* the candidate of sub-parser k converts to a number and passes the checks
ValidAt(k) ==
    /\ Candidate(k).exc = ""
    /\ InRange(Candidate(k).val)
    /\ parser_data.force_int => PassesIntTest(Candidate(k).val)

ValidIndices == { k \in 1..Len(parsers) : ValidAt(k) }

\* the call is over: it returned or an exception left it
CascadeDone == p_pc \in {"returned", "raised"}

\* C7: the cascade returns the result of the lowest-index sub-parser whose
\* output converts to a number and passes the range and integer checks, and
\* None exactly when no sub-parser of the list has such an output; a
\* sub-parser whose output fails never stops the later ones from being tried.
C7_FirstValidSubParserWins ==
    CascadeDone =>
        /\ p_pc = "returned"
        /\ p_ret = IF ValidIndices = {} THEN PyNone
                   ELSE Candidate(SetMin(ValidIndices)).val

\* distance, in ticks, of a non-negative score to its nearest integer
NearestIntegerDistance(v) ==
    IF v % Scale <= Scale - (v % Scale) THEN v % Scale ELSE Scale - (v % Scale)

\* in range and, under force_int, within int_tol of the nearest integer
Acceptable(x) ==
    /\ InRange(x)
    /\ parser_data.force_int =>
          x.kind = "float" /\ NearestIntegerDistance(x.v) < parser_data.int_tol

\* C8: every non-null value the cascade returns lies in [min_score,
\* max_score] and, under force_int, within int_tol of its nearest integer;
\* conversely a candidate that is in range and within int_tol of its nearest
\* integer is accepted, so the cascade never passes over one.
C8_RangeAndIntegerTolerance ==
    /\ (p_pc = "returned" /\ p_ret # PyNone) => Acceptable(p_ret)
    /\ \A k \in 1..p_i : ~(Candidate(k).exc = "" /\ Acceptable(Candidate(k).val))

\* C9: with the default sub-parsers, force_int and int_tol = 0.0001 on the
\* scale 0..5, the cascade returns 1 for "Score: 1" and None for "Score: 1.5".
C9_ScoreColonExamples ==
    ( /\ CascadeDone
      /\ parsers = default_sub_parsers
      /\ parser_data.force_int
      /\ parser_data.int_tol = Resolution ) =>
        /\ generated_text = <<"Score", ":", " ", "1">> =>
              p_pc = "returned" /\ p_ret = PyFloat(Scale)
        /\ generated_text = <<"Score", ":", " ", "1", ".", "5">> =>
              p_pc = "returned" /\ p_ret = PyNone

\* C10: the cascade never raises: every failure of a sub-parser's candidate
\* moves it on to the next sub-parser, and it returns None only after the
\* whole list has been tried.
C10_CascadeNeverRaises ==
    /\ p_pc # "raised"
    /\ (p_pc = "returned" /\ p_ret = PyNone) => p_i = Len(parsers)

-----------------------------------------------------------------------------
(* Consolidator (consolidate/base.py).  A Python dict is a sequence of      *)
(* [k, v] entries in insertion order.                                      *)

DictHas(d, key) == \E n \in 1..Len(d) : d[n].k = key

DictGet(d, key) == d[CHOOSE n \in 1..Len(d) : d[n].k = key].v

\* d[key] = value: a key already there keeps its position
DictSet(d, key, value) ==
    IF DictHas(d, key)
    THEN [n \in 1..Len(d) |-> IF d[n].k = key THEN [k |-> key, v |-> value] ELSE d[n]]
    ELSE Append(d, [k |-> key, v |-> value])

\* d.setdefault(key, default)
DictSetDefault(d, key, default) == IF DictHas(d, key) THEN DictGet(d, key) ELSE default

\* getattr(obj, name): [exc, val]
getattr(obj, name) ==
    IF name \in DOMAIN obj THEN [exc |-> "", val |-> obj[name]]
    ELSE [exc |-> "AttributeError", val |-> None]

ClusterOutput(cluster_name, llm_score, error_message) ==
    [cluster_name |-> cluster_name, llm_score |-> llm_score,
     error_message |-> error_message]

_IntermediaryResult(run_id, llm, data) == [run_id |-> run_id, llm |-> llm, data |-> data]

_CleanResult(llm, data) == [llm |-> llm, data |-> data]

\* list(clusters_cfg.clusters.keys())
all_cluster_names == <<"X", "Y">>

\* scores are in tenths: 9 is 0.9
ConsolidateConfigs ==
    [ assign_id_column_name : {"assign_id"},
      llm_column_name : {"llm"},
      ordered_run_ids : { <<"r1", "r2", "r3">> },
      llms : { <<"gpt">>, <<"gpt", "llama">> },
      assign_id_blacklist : { <<>>, <<"B001">>, <<"A003">> } ]

reversed_run_ids(cfg) ==
    [n \in 1..Len(cfg.ordered_run_ids) |->
        cfg.ordered_run_ids[Len(cfg.ordered_run_ids) + 1 - n]]

\* the lines of a result file
FileData ==
    { <<>>,
      << ClusterOutput("X", Some(9), None), ClusterOutput("Y", None, None) >>,
      << ClusterOutput("X", Some(6), None) >>,
      << ClusterOutput("X", None, Some("No cluster data.")) >> }

\* the places root_dir/run_id/llm/a_id.jsonl of the tree
FileSlots ==
    << [a_id |-> "A003", run_id |-> "r1", llm |-> "gpt"],
       [a_id |-> "A003", run_id |-> "r2", llm |-> "gpt"],
       [a_id |-> "A003", run_id |-> "r3", llm |-> "gpt"],
       [a_id |-> "A003", run_id |-> "r3", llm |-> "llama"],
       [a_id |-> "A003", run_id |-> "r9", llm |-> "gpt"],
       [a_id |-> "B001", run_id |-> "r3", llm |-> "gpt"] >>

\* what a place can hold: no file (None) or a file with these lines
SlotChoices(n) ==
    IF n <= 3 THEN {None} \cup { Some(d) : d \in FileData }
    ELSE {None, Some(<<ClusterOutput("X", Some(6), None)>>), Some(<<>>)}

\* the orders in which the walk meets the places
WalkOrders == { <<1, 2, 3, 4, 5, 6>>, <<6, 5, 4, 3, 2, 1>>, <<2, 6, 4, 1, 3, 5>> }

\* walk_fn(root_dir, self.load): the files of the tree in the order of the walk
RECURSIVE walk_fn(_, _, _)
walk_fn(content, order, n) ==
    IF n > Len(order) THEN <<>>
    ELSE (IF content[order[n]] = None THEN <<>>
          ELSE << [a_id |-> FileSlots[order[n]].a_id,
                   run_id |-> FileSlots[order[n]].run_id,
                   llm |-> FileSlots[order[n]].llm,
                   data |-> Get(content[order[n]])] >>)
         \o walk_fn(content, order, n + 1)

\* {c.cluster_name: c for c in data}
RECURSIVE DataByName(_, _)
DataByName(data, n) ==
    IF n = 0 THEN <<>>
    ELSE DictSet(DataByName(data, n - 1), data[n].cluster_name, data[n])

\* CollectFile without the test of the blacklist
CollectFile_NoBlacklist(cfg, results, file) ==
    IF ~InList(file.run_id, cfg.ordered_run_ids) \/ ~InList(file.llm, cfg.llms)
    THEN results
    ELSE DictSet(results, file.a_id,
                 DictSet(DictSetDefault(results, file.a_id, <<>>), file.run_id,
                         _IntermediaryResult(file.run_id, file.llm,
                                             DataByName(file.data, Len(file.data)))))

\* CollectFile without the test of the run id and of the model
CollectFile_NoAllowList(cfg, results, file) ==
    IF InList(file.a_id, cfg.assign_id_blacklist) THEN results
    ELSE DictSet(results, file.a_id,
                 DictSet(DictSetDefault(results, file.a_id, <<>>), file.run_id,
                         _IntermediaryResult(file.run_id, file.llm,
                                             DataByName(file.data, Len(file.data)))))

\* the body of the for loop of _get_intermediary_results for one file
CollectFile(cfg, results, file) ==
    IF InList(file.a_id, cfg.assign_id_blacklist) THEN results
    ELSE IF ~InList(file.run_id, cfg.ordered_run_ids) \/ ~InList(file.llm, cfg.llms)
    THEN results
    ELSE DictSet(results, file.a_id,
                 DictSet(DictSetDefault(results, file.a_id, <<>>), file.run_id,
                         _IntermediaryResult(file.run_id, file.llm,
                                             DataByName(file.data, Len(file.data)))))

\* the inner loop of _keep_only_latest from reversed run id n on: the
\* ClusterOutput of the first run that holds the name, None without one
RECURSIVE LatestClusterOutput(_, _, _, _)
LatestClusterOutput(cfg, aid_result, name, n) ==
    IF n > Len(cfg.ordered_run_ids) THEN None
    ELSE IF /\ DictHas(aid_result, reversed_run_ids(cfg)[n])
            /\ DictHas(DictGet(aid_result, reversed_run_ids(cfg)[n]).data, name)
    THEN Some(DictGet(DictGet(aid_result, reversed_run_ids(cfg)[n]).data, name))
    ELSE LatestClusterOutput(cfg, aid_result, name, n + 1)

RECURSIVE KeepLoop(_, _, _, _)

\* KeepName without the 'latest[name] = None' of a cluster no run holds
KeepName_Omit(cfg, aid_result, n, latest, found) ==
    IF found = None
    THEN KeepLoop(cfg, aid_result, n + 1, latest)
    ELSE IF getattr(Get(found), "llm_output").exc # ""
    THEN [exc |-> getattr(Get(found), "llm_output").exc, latest |-> latest]
    ELSE KeepLoop(cfg, aid_result, n + 1,
                  DictSet(latest, all_cluster_names[n],
                          getattr(Get(found), "llm_output").val))

\* latest[name] = cluster_output.llm_output, or None when no run holds it
KeepName(cfg, aid_result, n, latest, found) ==
    IF found = None
    THEN KeepLoop(cfg, aid_result, n + 1, DictSet(latest, all_cluster_names[n], None))
    ELSE IF getattr(Get(found), "llm_output").exc # ""
    THEN [exc |-> getattr(Get(found), "llm_output").exc, latest |-> latest]
    ELSE KeepLoop(cfg, aid_result, n + 1,
                  DictSet(latest, all_cluster_names[n],
                          getattr(Get(found), "llm_output").val))

\* the outer loop of _keep_only_latest from cluster name n on: [exc, latest]
KeepLoop(cfg, aid_result, n, latest) ==
    IF n > Len(all_cluster_names) THEN [exc |-> "", latest |-> latest]
    ELSE IF DictHas(latest, all_cluster_names[n])
    THEN KeepLoop(cfg, aid_result, n + 1, latest)
    ELSE KeepName(cfg, aid_result, n, latest,
                  LatestClusterOutput(cfg, aid_result, all_cluster_names[n], 1))

\* _keep_only_latest(aid_result): [exc, val]
_keep_only_latest(cfg, aid_result) ==
    IF KeepLoop(cfg, aid_result, 1, <<>>).exc # ""
    THEN [exc |-> KeepLoop(cfg, aid_result, 1, <<>>).exc, val |-> None]
    ELSE [exc |-> "",
          val |-> Some(_CleanResult(aid_result[1].v.llm,
                               KeepLoop(cfg, aid_result, 1, <<>>).latest))]

\* data.setdefault(column, []).append(value)
AppendTo(data, column, value) ==
    DictSet(data, column, Append(DictSetDefault(data, column, <<>>), value))

RECURSIVE AppendValues(_, _, _)
AppendValues(data, values, n) ==
    IF n > Len(values) THEN data
    ELSE AppendValues(AppendTo(data, values[n].k, values[n].v), values, n + 1)

\* the loop of _to_df from row n on
RECURSIVE _to_df(_, _, _, _)
_to_df(cfg, clean, n, data) ==
    IF n > Len(clean) THEN data
    ELSE _to_df(cfg, clean, n + 1,
                AppendValues(AppendTo(AppendTo(data, cfg.assign_id_column_name, clean[n].k),
                                      cfg.llm_column_name, clean[n].v.llm),
                             clean[n].v.data, 1))

ConsInit ==
    /\ SegIdle
    /\ MergeIdle
    /\ ParseIdle
    /\ ExtractIdle
    /\ c_cfg \in ConsolidateConfigs
    /\ \E content \in [1..Len(FileSlots) -> UNION { SlotChoices(n) : n \in 1..Len(FileSlots) }],
          order \in WalkOrders :
          /\ \A n \in 1..Len(FileSlots) : content[n] \in SlotChoices(n)
          /\ c_files = walk_fn(content, order, 1)
    /\ c_i = 0
    /\ result_by_aid = <<>>
    /\ clean_results = <<>>
    /\ c_k = 0
    /\ df = <<>>
    /\ c_pc = "call"
    /\ c_exc = ""

\* one iteration of 'for data, walk in walk_fn(root_dir, self.load)'
Collect ==
    /\ c_pc = "call"
    /\ c_i < Len(c_files)
    /\ result_by_aid' = CollectFile(c_cfg, result_by_aid, c_files[c_i + 1])
    /\ c_i' = c_i + 1
    /\ UNCHANGED <<c_files, c_cfg, clean_results, c_k, df, c_pc, c_exc,
                   seg_vars, m_vars, p_vars, x_vars>>

\* one item of {k: self._keep_only_latest(v) for k, v in result_by_aid.items()}
KeepOnlyLatest ==
    /\ c_pc = "call"
    /\ c_i = Len(c_files)
    /\ c_k < Len(result_by_aid)
    /\ LET r == _keep_only_latest(c_cfg, result_by_aid[c_k + 1].v) IN
         /\ clean_results' = IF r.exc = ""
                             THEN DictSet(clean_results, result_by_aid[c_k + 1].k, Get(r.val))
                             ELSE clean_results
         /\ c_pc' = IF r.exc = "" THEN "call" ELSE "raised"
         /\ c_exc' = r.exc
    /\ c_k' = c_k + 1
    /\ UNCHANGED <<c_files, c_cfg, c_i, result_by_aid, df, seg_vars, m_vars, p_vars,
                 x_vars>>

\* df = self._to_df(result_by_aid); df.to_csv(...)
ToDf ==
    /\ c_pc = "call"
    /\ c_i = Len(c_files)
    /\ c_k = Len(result_by_aid)
    /\ df' = _to_df(c_cfg, clean_results, 1, <<>>)
    /\ c_pc' = "done"
    /\ UNCHANGED <<c_files, c_cfg, c_i, result_by_aid, clean_results, c_k, c_exc,
                   seg_vars, m_vars, p_vars, x_vars>>

ConsNext == Collect \/ KeepOnlyLatest \/ ToDf

SpecCons == ConsInit /\ [][ConsNext]_vars

-----------------------------------------------------------------------------
(* Properties of the consolidation *)

\* scanning the run ids from newest to oldest (from reversed run id n on), the
\* score of the first run that is present and holds a non-null score
RECURSIVE NewestNonNull(_, _, _, _)
NewestNonNull(cfg, aid_result, name, n) ==
    IF n > Len(cfg.ordered_run_ids) THEN None
    ELSE IF /\ DictHas(aid_result, reversed_run_ids(cfg)[n])
            /\ DictHas(DictGet(aid_result, reversed_run_ids(cfg)[n]).data, name)
            /\ DictGet(DictGet(aid_result, reversed_run_ids(cfg)[n]).data, name).llm_score # None
    THEN DictGet(DictGet(aid_result, reversed_run_ids(cfg)[n]).data, name).llm_score
    ELSE NewestNonNull(cfg, aid_result, name, n + 1)

\* C1: for every collected respondent that _keep_only_latest has been called
\* for, and for every configured cluster, the consolidated value is the score
\* of the newest run that is present for the respondent and holds a non-null
\* score for the cluster (null without such a run); a newer run whose score
\* is null is skipped.
C1_NewestNonNullWins ==
    \A n \in 1..Len(result_by_aid) :
        n <= c_k =>
            /\ DictHas(clean_results, result_by_aid[n].k)
            /\ \A m \in 1..Len(all_cluster_names) :
                  /\ DictHas(DictGet(clean_results, result_by_aid[n].k).data,
                             all_cluster_names[m])
                  /\ DictGet(DictGet(clean_results, result_by_aid[n].k).data,
                             all_cluster_names[m])
                       = NewestNonNull(c_cfg, result_by_aid[n].v, all_cluster_names[m], 1)

\* the keys of a dict, in insertion order
DictKeys(d) == [n \in 1..Len(d) |-> d[n].k]

\* some collected run of the respondent holds a record of the cluster
HoldsCluster(aid_result, name) ==
    \E n \in 1..Len(aid_result) : DictHas(aid_result[n].v.data, name)

\* C11: every consolidated row has a value for every configured cluster, in
\* configuration order; the value is an explicit null when no collected run
\* of the respondent holds the cluster; every column of the table has one
\* entry per respondent.
C11_EveryRowHasEveryCluster ==
    /\ \A n \in 1..Len(clean_results) :
          /\ DictKeys(clean_results[n].v.data) = all_cluster_names
          /\ \A m \in 1..Len(all_cluster_names) :
                ~HoldsCluster(DictGet(result_by_aid, clean_results[n].k),
                              all_cluster_names[m])
                    => DictGet(clean_results[n].v.data, all_cluster_names[m]) = None
    /\ c_pc = "done" =>
          /\ \A col \in 1..Len(df) : Len(df[col].v) = Len(clean_results)
          /\ clean_results # <<>> =>
                DictKeys(df) = <<c_cfg.assign_id_column_name, c_cfg.llm_column_name>>
                                  \o all_cluster_names

\* a table of two respondents whose collected runs hold no cluster record
C11_Witness ==
    /\ c_pc = "done"
    /\ Len(clean_results) = 2
    /\ Len(df) = 4
    /\ \A n \in 1..2 : DictGet(clean_results[n].v.data, "Y") = None

\* _get_intermediary_results on the first n files of a walk
RECURSIVE CollectAll(_, _, _)
CollectAll(cfg, files, n) ==
    IF n = 0 THEN <<>>
    ELSE CollectFile(cfg, CollectAll(cfg, files, n - 1), files[n])

\* the files the walk has handed over so far
FilesSeen == SubSeq(c_files, 1, c_i)

\* the values of the column of respondent ids of the table
AssignIdColumn ==
    IF DictHas(df, c_cfg.assign_id_column_name)
    THEN DictGet(df, c_cfg.assign_id_column_name) ELSE <<>>

OffBlacklist(file) == ~InList(file.a_id, c_cfg.assign_id_blacklist)

\* C12: a respondent id on the blacklist is never a key of the collected
\* results, of the rows or of the table, and the collected results are those
\* of the walk without the files of the blacklisted respondents, however many
\* files they have.
C12_BlacklistedNeverAppears ==
    /\ \A n \in 1..Len(c_cfg.assign_id_blacklist) :
          /\ ~DictHas(result_by_aid, c_cfg.assign_id_blacklist[n])
          /\ ~DictHas(clean_results, c_cfg.assign_id_blacklist[n])
          /\ ~InList(c_cfg.assign_id_blacklist[n], AssignIdColumn)
    /\ result_by_aid =
          CollectAll(c_cfg, SelectSeq(FilesSeen, OffBlacklist),
                     Len(SelectSeq(FilesSeen, OffBlacklist)))

\* the table is written with a row for B001 while A003, on the blacklist,
\* has at least two result files with records
C12_Witness ==
    /\ c_pc = "done"
    /\ c_cfg.assign_id_blacklist = <<"A003">>
    /\ AssignIdColumn = <<"B001">>
    /\ \E i, j \in 1..Len(c_files) :
          /\ i # j
          /\ c_files[i].a_id = "A003" /\ c_files[i].data # <<>>
          /\ c_files[j].a_id = "A003" /\ c_files[j].data # <<>>
          /\ InList(c_files[i].run_id, c_cfg.ordered_run_ids)
          /\ InList(c_files[j].run_id, c_cfg.ordered_run_ids)

AllowListed(file) ==
    InList(file.run_id, c_cfg.ordered_run_ids) /\ InList(file.llm, c_cfg.llms)

\* C13: a file whose run id is not in ordered_run_ids or whose model is not
\* in llms is never collected: no collected result has its run id or model,
\* the collected results are those of the walk without such files, and the
\* walk itself raises nothing.
C13_OnlyAllowListedCollected ==
    /\ \A n \in 1..Len(result_by_aid) :
          \A m \in 1..Len(result_by_aid[n].v) :
              /\ InList(result_by_aid[n].v[m].k, c_cfg.ordered_run_ids)
              /\ InList(result_by_aid[n].v[m].v.run_id, c_cfg.ordered_run_ids)
              /\ InList(result_by_aid[n].v[m].v.llm, c_cfg.llms)
    /\ result_by_aid =
          CollectAll(c_cfg, SelectSeq(FilesSeen, AllowListed),
                     Len(SelectSeq(FilesSeen, AllowListed)))
    /\ c_i < Len(c_files) => c_pc = "call"

\* the walk is over, it met a file of run r9 and a file of model llama that
\* is not configured, both with records, and the table is written
C13_Witness ==
    /\ c_pc = "done"
    /\ c_cfg.llms = <<"gpt">>
    /\ \E i, j \in 1..Len(c_files) :
          /\ c_files[i].run_id = "r9" /\ c_files[i].data # <<>>
          /\ c_files[j].llm = "llama" /\ c_files[j].data # <<>>
    /\ Len(result_by_aid) >= 1

-----------------------------------------------------------------------------
(* Tagger (segmentation/convert.py) with the regular expressions of        *)
(* TagsConfig.  A line is a sequence of tokens: a blank, a digit, '.', '/' *)
(* or one of the words Answered, Question, Iteration, x, y.                *)

SetMax(S) == CHOOSE x \in S : \A y \in S : y <= x

\* \.\. at p
DotDot(t, p) == At(t, p) = "." /\ At(t, p + 1) = "."

\* the ends of .+?\.\. after the word Iteration at p
IterationEnds(t, p) == { j \in (p + 2)..Len(t) : DotDot(t, j) }

\* (Ite(ra|ar)tion.+?)?\.\. at p: the position after the match, 0 without one
TailFrom(t, p) ==
    IF At(t, p) = "Iteration" /\ IterationEnds(t, p) # {}
    THEN SetMin(IterationEnds(t, p)) + 2
    ELSE IF DotDot(t, p) THEN p + 2 ELSE 0

\* \s*(Ite(ra|ar)tion.+?)?\.\. at q
RestEnd(t, q) == TailFrom(t, SkipWs(t, q))

\* ^(Answered)?\s*Question: the position after the match, 0 without one
QuestionEnd(t) ==
    IF At(t, SkipWs(t, IF At(t, 1) = "Answered" THEN 2 ELSE 1)) = "Question"
    THEN SkipWs(t, IF At(t, 1) = "Answered" THEN 2 ELSE 1) + 1
    ELSE 0

\* the ends of the lazy group (.+?) that starts at s
CaptureEnds(t, s) == { e \in (s + 1)..(Len(t) + 1) : RestEnd(t, e) > 0 }

\* the starts that \s* leaves to the group, from q on
CaptureStarts(t, q) == { s \in q..SkipWs(t, q) : CaptureEnds(t, s) # {} }

NoTagMatch == [ok |-> FALSE, group2 |-> <<>>, group0 |-> <<>>]

\* the match with the group starting at s: \s* is greedy, (.+?) is lazy
MatchFrom(t, s) ==
    [ok |-> TRUE,
     group2 |-> SubSeq(t, s, SetMin(CaptureEnds(t, s)) - 1),
     group0 |-> SubSeq(t, 1, RestEnd(t, SetMin(CaptureEnds(t, s))) - 1)]

\* self.pattern.search(line)
pattern_search(t) ==
    IF QuestionEnd(t) = 0 THEN NoTagMatch
    ELSE IF CaptureStarts(t, QuestionEnd(t)) = {} THEN NoTagMatch
    ELSE MatchFrom(t, SetMax(CaptureStarts(t, QuestionEnd(t))))

\* the words of one letter and of several letters
IsLetter(c) == c \in {"x", "y"}
IsLongWord(c) == c \in {"Answered", "Question", "Iteration"}

\* \w? at p, on a digit or a word of one letter
OptWord(t, p) == IF IsDigit(At(t, p)) \/ IsLetter(At(t, p)) THEN p + 1 ELSE p

\* ([0-9]+)\s*\w?\s*[0-9]* at the digit at p: the position from which the
\* search goes on (\w? takes the first letter of a longer word, whose other
\* letters end the match)
DigitMatchEnd(t, p) ==
    IF IsLongWord(At(t, SkipWs(t, DigitRunEnd(t, p))))
    THEN SkipWs(t, DigitRunEnd(t, p)) + 1
    ELSE DigitRunEnd(t, SkipWs(t, OptWord(t, SkipWs(t, DigitRunEnd(t, p)))))

\* self.digits.findall(question_tag) from p on: the first group of the matches
RECURSIVE digits_findall(_, _)
digits_findall(t, p) ==
    IF \A a \in p..Len(t) : ~IsDigit(t[a]) THEN <<>>
    ELSE <<SubSeq(t, SetMin({ a \in p..Len(t) : IsDigit(t[a]) }),
                  DigitRunEnd(t, SetMin({ a \in p..Len(t) : IsDigit(t[a]) })) - 1)>>
         \o digits_findall(t, DigitMatchEnd(t, SetMin({ a \in p..Len(t) : IsDigit(t[a]) })))

\* int(str) of a string: [exc, val]
int_str(str) ==
    IF /\ Len(str_strip(str)) >= 1
       /\ \A k \in 1..Len(str_strip(str)) : str_strip(str)[k] \in Digits
    THEN [exc |-> "", val |-> DecVal(str_strip(str))]
    ELSE [exc |-> "ValueError", val |-> 0]

Tag(question_ids, match_string) ==
    [question_ids |-> question_ids, match_string |-> match_string]

\* set(res)
ToSet(seq) == { seq[k] : k \in 1..Len(seq) }

\* QuestionIdsOf without the collapse of identical groups
QuestionIdsOf_NoCollapse(res) == [k \in 1..Len(res) |-> int_str(res[k]).val]

\* the except branch of _do_tag
QuestionIdsOf(res) ==
    IF Cardinality(ToSet(res)) = 1 THEN <<int_str(res[1]).val>>
    ELSE [k \in 1..Len(res) |-> int_str(res[k]).val]

\* TagOfMatch with an empty tag, not None, for a line without a match
TagOfMatch_EmptyTag(match) ==
    IF ~match.ok THEN Some(Tag(<<>>, <<>>))
    ELSE IF int_str(match.group2).exc = ""
    THEN Some(Tag(<<int_str(match.group2).val>>, match.group0))
    ELSE Some(Tag(QuestionIdsOf(digits_findall(match.group2, 1)), match.group0))

\* _do_tag with the match of the primary regex
TagOfMatch(match) ==
    IF ~match.ok THEN None
    ELSE IF int_str(match.group2).exc = ""
    THEN Some(Tag(<<int_str(match.group2).val>>, match.group0))
    ELSE Some(Tag(QuestionIdsOf(digits_findall(match.group2, 1)), match.group0))

_do_tag(line) == TagOfMatch(pattern_search(line))

\* Tagger.__call__
Tagger(lns) == [k \in 1..Len(lns) |-> _do_tag(lns[k])]

-----------------------------------------------------------------------------
(* The segment command (launch/commands.py) on one document:               *)
(* to_transcript(lines, tag(lines))                                        *)

\* lines of a document: markers of every shape, and lines without a marker
DocumentLines ==
    { <<"Question", " ", "1", ".", ".", " ", "y">>,
      <<"Answered", " ", "Question", " ", "2", ".", ".", " ", "y">>,
      <<"Question", " ", "1", "/", "2", ".", ".", " ", "y">>,
      <<"Question", " ", "1", "/", "1", ".", ".">>,
      <<"Question", " ", "1", "1", ".", ".", " ", "y">>,
      <<"Question", " ", "1", " ", "2", ".", ".", " ", "y">>,
      <<"Question", " ", "x", ".", ".", " ", "y">>,
      <<"Question", " ", "3", " ", "Iteration", " ", "2", ".", ".", " ", "y">>,
      <<"Question", " ", "1", ".", " ", "y">>,
      <<" ", "y", " ">> }

SegmentInit ==
    /\ MergeIdle
    /\ ParseIdle
    /\ ConsIdle
    /\ ExtractIdle
    /\ \E n \in 0..MaxLines : lines \in [1..n -> DocumentLines]
    /\ tags = <<>>
    /\ clusters_cfg \in ClusterConfigs
    /\ stripped = <<>>
    /\ all_spans = <<>>
    /\ transcript = <<>>
    /\ provenance = <<>>
    /\ seg_pc = "tag"
    /\ seg_k = 0
    /\ previous = <<>>

\* tag(lines)
DoTag ==
    /\ seg_pc = "tag"
    /\ tags' = Tagger(lines)
    /\ seg_pc' = "call"
    /\ UNCHANGED <<lines, clusters_cfg, stripped, all_spans, transcript, provenance,
                   seg_k, previous, m_vars, p_vars, c_vars, x_vars>>

SegmentNext == DoTag \/ Call \/ FindAllSpans \/ FillCluster \/ Return

SpecSegment == SegmentInit /\ [][SegmentNext]_vars

-----------------------------------------------------------------------------
(* Properties of the Tagger and of the segment command *)

\* tag(lines) has just returned
Tagged == seg_pc = "call"

\* the substring captured on line k and its digit groups
CaptureOf(k) == pattern_search(lines[k]).group2
GroupsOf(k) == digits_findall(CaptureOf(k), 1)

\* C14: the question-id list of a tag is the single integer the captured
\* substring parses as; otherwise the one id of the digit groups when there
\* is at least one and all are textually identical; otherwise every digit
\* group as an integer, in extraction order.  "11" gives [11], the groups
\* "1", "2" give [1, 2], the groups "1", "1" give [1].
C14_TaggerQuestionIds ==
    Tagged =>
        \A k \in 1..Len(lines) :
            pattern_search(lines[k]).ok =>
                /\ tags[k] # None
                /\ Get(tags[k]).question_ids =
                      IF int_str(CaptureOf(k)).exc = ""
                      THEN <<DecVal(str_strip(CaptureOf(k)))>>
                      ELSE IF /\ Len(GroupsOf(k)) >= 1
                              /\ \A i, j \in 1..Len(GroupsOf(k)) :
                                    GroupsOf(k)[i] = GroupsOf(k)[j]
                      THEN <<DecVal(GroupsOf(k)[1])>>
                      ELSE [i \in 1..Len(GroupsOf(k)) |-> DecVal(GroupsOf(k)[i])]
                /\ CaptureOf(k) = <<"1", "1">> => Get(tags[k]).question_ids = <<11>>
                /\ CaptureOf(k) = <<"1", "/", "2">> =>
                      Get(tags[k]).question_ids = <<1, 2>>
                /\ CaptureOf(k) = <<"1", "/", "1">> => Get(tags[k]).question_ids = <<1>>

\* a tagged document with the three captures "11", "1/2" and "1/1"
C14_Witness ==
    /\ Tagged
    /\ \E a, b, c \in 1..Len(lines) :
          /\ CaptureOf(a) = <<"1", "1">> /\ tags[a] # None
          /\ CaptureOf(b) = <<"1", "/", "2">> /\ tags[b] # None
          /\ CaptureOf(c) = <<"1", "/", "1">> /\ tags[c] # None

\* every question of the cluster has the span (None, None)
AllSpansEmpty(c) ==
    \A j \in 1..Len(c.questions) : all_spans[c.questions[j]] = <<None, None>>

\* C15: the tagger and the segmenter are always at a step of the call that
\* can be taken, up to the return: a line without a marker gets no tag, a question no tag carries gets the span (None,
\* None), a cluster whose questions all have that span gets no line, and the
\* transcript returned has one entry per configured cluster.
C15_MalformedInputDegrades ==
    /\ seg_pc \in {"tag", "call", "find_all_spans", "fill", "done"}
    /\ seg_pc = "fill" => seg_k <= Len(clusters_cfg)
    /\ Tagged =>
          /\ Len(tags) = Len(lines)
          /\ \A k \in 1..Len(lines) : ~pattern_search(lines[k]).ok => tags[k] = None
    /\ SpansComputed =>
          \A q \in DOMAIN all_spans :
              HitsOf(tags, q) = {} => all_spans[q] = <<None, None>>
    /\ seg_pc = "done" =>
          /\ DOMAIN transcript = ClusterNames(clusters_cfg)
          /\ \A k \in 1..Len(clusters_cfg) :
                AllSpansEmpty(clusters_cfg[k]) => transcript[clusters_cfg[k].name] = <<>>

\* a transcript is returned for a document with a line without a marker and
\* a question no tag carries; one cluster is empty, another one is not
C15_Witness ==
    /\ seg_pc = "done"
    /\ \E k \in 1..Len(lines) : ~pattern_search(lines[k]).ok /\ tags[k] = None
    /\ \E q \in DOMAIN all_spans : HitsOf(tags, q) = {}
    /\ \E k \in 1..Len(clusters_cfg) :
          /\ clusters_cfg[k].questions # <<>>
          /\ AllSpansEmpty(clusters_cfg[k])
          /\ transcript[clusters_cfg[k].name] = <<>>
    /\ \E name \in DOMAIN transcript : transcript[name] # <<>>

(* The extract command: launch/commands.py, extract and RerunProtocol *)

MaxWalk == 3

\* class RerunProtocol(Enum)
RerunProtocol == { "NEVER", "MISSING", "OVERWRITE" }

\* the respondents of clustered_transcript_dir; os.walk descends into
\* sub-directories, so one a_id can come up more than once
AssignIds == { "A001", "A002" }

PreviousOutput == "previous run"

\* what save_dataclass_jsonl writes for the respondent
do_extract(a_id) == "extracted"

\* os.path.exists(output_file)
exists(a_id) == run_dir[a_id] # None

ExtractInit ==
    /\ SegIdle
    /\ MergeIdle
    /\ ParseIdle
    /\ ConsIdle
    /\ transcript_files \in SeqUpTo(AssignIds, MaxWalk)
    /\ rerun_protocol \in RerunProtocol
    /\ run_dir \in [AssignIds -> {None, Some(PreviousOutput)}]
    /\ extracted = <<>>
    /\ x_i = 0
    /\ x_pc = "walk"
    /\ x_exc = ""

\* the a_id of the file the loop is at
a_id_at == transcript_files[x_i + 1]

InLoop == x_pc = "walk" /\ x_i < Len(transcript_files)

\* RerunProtocol.NEVER and the output file exists: raise ValueError
RaiseNever ==
    /\ InLoop
    /\ exists(a_id_at)
    /\ rerun_protocol = "NEVER"
    /\ x_pc' = "raised"
    /\ x_exc' = "ValueError"
    /\ UNCHANGED <<transcript_files, rerun_protocol, run_dir, extracted, x_i,
                   seg_vars, m_vars, p_vars, c_vars>>

ContinueMissing_Extracts ==
    /\ InLoop
    /\ exists(a_id_at)
    /\ rerun_protocol = "MISSING"
    /\ extracted' = Append(extracted, a_id_at)
    /\ run_dir' = [run_dir EXCEPT ![a_id_at] = Some(do_extract(a_id_at))]
    /\ x_i' = x_i + 1
    /\ UNCHANGED <<transcript_files, rerun_protocol, x_pc, x_exc,
                   seg_vars, m_vars, p_vars, c_vars>>

\* RerunProtocol.MISSING and the output file exists: continue
ContinueMissing ==
    /\ InLoop
    /\ exists(a_id_at)
    /\ rerun_protocol = "MISSING"
    /\ x_i' = x_i + 1
    /\ UNCHANGED <<transcript_files, rerun_protocol, run_dir, extracted, x_pc,
                   x_exc, seg_vars, m_vars, p_vars, c_vars>>

\* no output file, or RerunProtocol.OVERWRITE: load the transcript, run the
\* extraction and save its outputs to the output file (opened with "w")
ExtractAndSave ==
    /\ InLoop
    /\ ~exists(a_id_at) \/ rerun_protocol = "OVERWRITE"
    /\ extracted' = Append(extracted, a_id_at)
    /\ run_dir' = [run_dir EXCEPT ![a_id_at] = Some(do_extract(a_id_at))]
    /\ x_i' = x_i + 1
    /\ UNCHANGED <<transcript_files, rerun_protocol, x_pc, x_exc,
                   seg_vars, m_vars, p_vars, c_vars>>

\* os.walk is exhausted
ExtractReturn ==
    /\ x_pc = "walk"
    /\ x_i = Len(transcript_files)
    /\ x_pc' = "done"
    /\ UNCHANGED <<transcript_files, rerun_protocol, run_dir, extracted, x_i,
                   x_exc, seg_vars, m_vars, p_vars, c_vars>>

ExtractNext == RaiseNever \/ ContinueMissing \/ ExtractAndSave \/ ExtractReturn

SpecExtract == ExtractInit /\ [][ExtractNext]_vars

\* the files of the other respondents are left as they are
OthersUnchanged == \A a \in AssignIds : a # a_id_at => run_dir'[a] = run_dir[a]

\* the extraction ran for the respondent the loop is at, and its output is
\* now the content of the output file
Processed ==
    /\ extracted' = Append(extracted, a_id_at)
    /\ run_dir'[a_id_at] = Some(do_extract(a_id_at))
    /\ x_pc' = "walk" /\ x_i' = x_i + 1

\* the rerun policy at the respondent the loop is at
RerunPolicyStep ==
    /\ OthersUnchanged
    /\ exists(a_id_at) /\ rerun_protocol = "NEVER" =>
          /\ x_pc' = "raised" /\ x_exc' = "ValueError"
          /\ run_dir' = run_dir /\ extracted' = extracted
    /\ exists(a_id_at) /\ rerun_protocol = "MISSING" =>
          /\ run_dir' = run_dir /\ extracted' = extracted
          /\ x_pc' = "walk" /\ x_i' = x_i + 1
    /\ exists(a_id_at) /\ rerun_protocol = "OVERWRITE" => Processed
    /\ ~exists(a_id_at) => Processed

-----------------------------------------------------------------------------
(* A second call of the segmenter on the text of the first, with no tags *)

\* the tag-stripped texts the first call produced: the stripped lines of
\* the document and the lines of every cluster
ProducedTexts == {stripped} \cup { transcript[name] : name \in DOMAIN transcript }

\* to_transcript(text, [None] * len(text)) after a first call has returned
Rerun ==
    /\ seg_pc = "done"
    /\ previous = None
    /\ previous' = Some(transcript)
    /\ \E text \in ProducedTexts :
          /\ lines' = text
          /\ tags' = [k \in 1..Len(text) |-> None]
    /\ stripped' = <<>>
    /\ all_spans' = <<>>
    /\ transcript' = <<>>
    /\ provenance' = <<>>
    /\ seg_pc' = "call"
    /\ seg_k' = 0
    /\ UNCHANGED <<clusters_cfg, m_vars, p_vars, c_vars, x_vars>>

RerunNext == Call \/ FindAllSpans \/ FillCluster \/ Return \/ Rerun

SpecRerun == SegInit /\ [][RerunNext]_vars

\* the second call has returned
SecondPassDone == seg_pc = "done" /\ previous # None

\* C17 as stated: the second call strips nothing more and returns the same
\* lines as the first.
C17_SecondPassReturnsSameLines ==
    SecondPassDone => stripped = lines /\ transcript = Get(previous)

\* C17, amended: the second call strips nothing more, every line is left as
\* it was given, and it returns no line: without tags every span is (None,
\* None) and every cluster of the transcript is empty.
C17_SecondPassStripsNothing ==
    SecondPassDone =>
        /\ stripped = lines
        /\ \A q \in DOMAIN all_spans : all_spans[q] = <<None, None>>
        /\ DOMAIN transcript = ClusterNames(clusters_cfg)
        /\ \A name \in DOMAIN transcript : transcript[name] = <<>>

\* the second call has returned on a text with a padded line, after a first
\* call that returned lines
C17_Witness ==
    /\ SecondPassDone
    /\ \E name \in DOMAIN Get(previous) : Get(previous)[name] # <<>>
    /\ \E k \in 1..Len(lines) : str_strip(lines[k]) # lines[k]

-----------------------------------------------------------------------------
(* The scan of _find_span, seen from the tags *)

\* the index of the first tag listing q (tracking starts there)
RunStart(tgs, q) == SetMin(HitsOf(tgs, q))

\* the index of the first tag after RunStart that is not blank and does not
\* list q, or len(tags) when there is none
RunClose(tgs, q) ==
    LET closing == { i \in (RunStart(tgs, q) + 1)..(Len(tgs) - 1) :
                       tgs[i + 1] # None /\ ~TagContains(tgs, i, q) }
    IN IF closing = {} THEN Len(tgs) ELSE SetMin(closing)

\* the index of the last tag listing q before RunClose
LastContaining(tgs, q) ==
    SetMax({ i \in HitsOf(tgs, q) : i < RunClose(tgs, q) })

\* the blank-tag lines between the last tag listing q and RunClose
TrailingBlanks(tgs, q) == (LastContaining(tgs, q) + 1)..(RunClose(tgs, q) - 1)

\* index i lies in the span sp, a pair of Optional indices
InSpan(sp, i) ==
    /\ sp[1] # None /\ sp[2] # None
    /\ Get(sp[1]) <= i /\ i <= Get(sp[2])

\* the questions of the configuration that some tag lists
TaggedQuestions == { q \in DOMAIN all_spans : HitsOf(tags, q) # {} }

\* C18 as stated: the blank-tag lines that come after the last tag listing a
\* question, before a different tag or the end of the transcript, are not
\* part of the question's span.
C18_TrailingBlanksOutsideSpan ==
    SpansComputed =>
        \A q \in TaggedQuestions :
            \A i \in TrailingBlanks(tags, q) : ~InSpan(all_spans[q], i)

\* C18, amended: a blank tag met after tracking has started moves the end to
\* its own index, so the blank-tag lines that come after the last tag
\* listing a question, before a different tag or the end of the transcript,
\* are part of the question's span, and the end of the span is the index of
\* the last of them.
C18_TrailingBlanksInsideSpan ==
    SpansComputed =>
        \A q \in TaggedQuestions :
            TrailingBlanks(tags, q) # {} =>
                /\ all_spans[q] = <<Some(RunStart(tags, q)),
                                    Some(SetMax(TrailingBlanks(tags, q)))>>
                /\ \A i \in TrailingBlanks(tags, q) : InSpan(all_spans[q], i)

\* a tag listing a question is followed by a blank-tag line and then by a
\* different tag; the blank-tag line has reached the question's cluster
C18_Witness ==
    /\ seg_pc = "done"
    /\ \E q \in TaggedQuestions :
          /\ TrailingBlanks(tags, q) # {}
          /\ RunClose(tags, q) < Len(tags)
          /\ InSpan(all_spans[q], RunClose(tags, q) - 1)
          /\ \E name \in DOMAIN provenance :
                InList(RunClose(tags, q) - 1, provenance[name])

\* the span sp moved by n lines
ShiftSpan(sp, n) ==
    << IF sp[1] = None THEN None ELSE Some(Get(sp[1]) + n),
       IF sp[2] = None THEN None ELSE Some(Get(sp[2]) + n) >>

\* C19: the scan of a question starts tracking at the first tag listing it
\* and is closed for good by the first later tag that is not blank and does
\* not list it: no line from that tag on is in the span, the tags from that
\* tag on have no effect on the span, even when one of them lists the
\* question again, and the blank tags and the tags without the question that
\* come before the start have no effect either.
C19_ScanClosesForGood ==
    SpansComputed =>
        \A q \in DOMAIN all_spans :
            IF HitsOf(tags, q) = {} THEN all_spans[q] = <<None, None>>
            ELSE LET s == RunStart(tags, q)
                     c == RunClose(tags, q)
                 IN /\ all_spans[q][1] = Some(s)
                    /\ \A i \in c..(Len(tags) - 1) : ~InSpan(all_spans[q], i)
                    /\ all_spans[q] = _find_span(q, SubSeq(tags, 1, c))
                    /\ all_spans[q] =
                          ShiftSpan(_find_span(q, SubSeq(tags, s + 1, Len(tags))), s)

\* a question is listed by the first tag, closed by the second and listed
\* again by the third: the third line is not in its span
C19_Witness ==
    /\ SpansComputed
    /\ \E q \in TaggedQuestions :
          /\ RunClose(tags, q) < Len(tags)
          /\ \E i \in HitsOf(tags, q) : i > RunClose(tags, q) /\ ~InSpan(all_spans[q], i)

\* the tag of line i lists no question at all
EmptyIdList(tgs, i) == tgs[i + 1] # None /\ Get(tgs[i + 1]).question_ids = <<>>

\* C20: every line inside the span of a question has no tag or a tag listing
\* that question; a line whose tag lists no question is in the span of no
\* question and among the lines of no cluster.
C20_SpanLinesBelongToQuestion ==
    SpansComputed =>
        \A i \in 0..(Len(tags) - 1) :
            /\ \A q \in DOMAIN all_spans :
                  InSpan(all_spans[q], i) =>
                      tags[i + 1] = None \/ TagContains(tags, i, q)
            /\ EmptyIdList(tags, i) =>
                  /\ \A q \in DOMAIN all_spans : ~InSpan(all_spans[q], i)
                  /\ \A name \in DOMAIN provenance : ~InList(i, provenance[name])

\* a transcript is returned for a document where a question's span holds a
\* blank-tag line and ends before a line whose tag lists no question
C20_Witness ==
    /\ seg_pc = "done"
    /\ \E q \in TaggedQuestions :
          /\ \E i \in 0..(Len(tags) - 1) : tags[i + 1] = None /\ InSpan(all_spans[q], i)
          /\ RunClose(tags, q) < Len(tags)
          /\ EmptyIdList(tags, RunClose(tags, q))
          /\ \E name \in DOMAIN provenance :
                /\ InList(RunStart(tags, q), provenance[name])
                /\ ~InList(RunClose(tags, q), provenance[name])

-----------------------------------------------------------------------------
(* A question listed by more than one cluster *)

\* the positions of the clusters of cfg that list q
ListedBy(cfg, q) == { k \in 1..Len(cfg) : InList(q, cfg[k].questions) }

\* the questions that more than one cluster lists
SharedQuestions(cfg) ==
    { q \in DOMAIN q_id_to_cluster_map(cfg) : Cardinality(ListedBy(cfg, q)) > 1 }

\* C21: for a question that two clusters list, the reverse index holds the
\* last of the clusters only, the question has one span, computed from the
\* tags alone, and every line of that span is among the lines of each of the
\* clusters that list it.
C21_SharedQuestionFillsBothClusters ==
    seg_pc = "done" =>
        \A q \in SharedQuestions(clusters_cfg) :
            /\ q_id_to_cluster_map(clusters_cfg)[q] =
                  clusters_cfg[SetMax(ListedBy(clusters_cfg, q))].name
            /\ q \in DOMAIN all_spans
            /\ all_spans[q] = _find_span(q, tags)
            /\ \A k \in ListedBy(clusters_cfg, q) :
                  \A i \in 0..(Len(tags) - 1) :
                      InSpan(all_spans[q], i) =>
                          /\ InList(i, provenance[clusters_cfg[k].name])
                          /\ InList(stripped[i + 1], transcript[clusters_cfg[k].name])

\* a question listed by two clusters has a span of two lines, and both lines
\* are in the cluster the reverse index dropped
C21_Witness ==
    /\ seg_pc = "done"
    /\ \E q \in SharedQuestions(clusters_cfg) :
          \E k \in ListedBy(clusters_cfg, q) :
              /\ q_id_to_cluster_map(clusters_cfg)[q] # clusters_cfg[k].name
              /\ \E i \in 0..(Len(tags) - 2) :
                    /\ all_spans[q] = <<Some(i), Some(i + 1)>>
                    /\ InList(i, provenance[clusters_cfg[k].name])
                    /\ InList(i + 1, provenance[clusters_cfg[k].name])

-----------------------------------------------------------------------------
(* One converter called on one document after another, as segment does *)

\* the tags of the documents of this part
DocumentTags ==
    {None} \cup { Some([question_ids |-> ids, match_string |-> MatchString]) :
                  ids \in { <<1>>, <<2>> } }

\* documents are one line shorter here, two of them being handled in a row
MaxDocument == MaxLines - 1

CallsInit ==
    /\ MergeIdle
    /\ ParseIdle
    /\ ConsIdle
    /\ ExtractIdle
    /\ \E n \in 0..MaxDocument :
          /\ lines \in [1..n -> LineTexts]
          /\ tags \in [1..n -> DocumentTags]
    /\ clusters_cfg \in ClusterConfigs
    /\ stripped = <<>>
    /\ all_spans = <<>>
    /\ transcript = <<>>
    /\ provenance = <<>>
    /\ seg_pc = "call"
    /\ seg_k = 0
    /\ previous = <<>>

\* the next file of the loop of segment: the same converter is called with
\* the lines and the tags of another document, or of the same one again
NextDocument ==
    /\ seg_pc = "done"
    /\ previous = None
    /\ previous' = Some([lines |-> lines, tags |-> tags,
                         clusters_cfg |-> clusters_cfg, transcript |-> transcript])
    /\ \E n \in 0..MaxDocument :
          /\ lines' \in [1..n -> LineTexts]
          /\ tags' \in [1..n -> DocumentTags]
    /\ seg_pc' = "call"
    /\ UNCHANGED <<clusters_cfg, stripped, all_spans, transcript, provenance,
                   seg_k, m_vars, p_vars, c_vars, x_vars>>

CallsNext == Call \/ FindAllSpans \/ FillCluster \/ Return \/ NextDocument

SpecCalls == CallsInit /\ [][CallsNext]_vars

\* the lines of cluster k for the arguments lns and tgs alone
LinesFor(cfg, k, lns, tgs) ==
    _fill_cluster(<<>>, cfg[k].questions,
                  [j \in 1..Len(lns) |-> _remove_tag(lns[j], j - 1, tgs)],
                  _find_all_spans(cfg, tgs))

\* C22: whatever was handled before, the transcript a call returns has, for
\* every configured cluster, the lines that the call's own lines and tags
\* give it and no other; after a second call the configuration is the one of
\* the first call, and a second call with the arguments of the first returns
\* an equal transcript.
C22_CallsKeepNoState ==
    seg_pc = "done" =>
        /\ DOMAIN transcript = ClusterNames(clusters_cfg)
        /\ \A k \in 1..Len(clusters_cfg) :
              transcript[clusters_cfg[k].name] = LinesFor(clusters_cfg, k, lines, tags)
        /\ previous # None =>
              /\ clusters_cfg = Get(previous).clusters_cfg
              /\ lines = Get(previous).lines /\ tags = Get(previous).tags
                    => transcript = Get(previous).transcript

\* a second call has returned on the document of the first call, which had
\* put two lines into a cluster: the cluster holds the same two lines again
C22_Witness ==
    /\ seg_pc = "done"
    /\ previous # None
    /\ lines = Get(previous).lines /\ tags = Get(previous).tags
    /\ \E name \in DOMAIN transcript :
          /\ Len(Get(previous).transcript[name]) = 2
          /\ transcript[name] = Get(previous).transcript[name]

-----------------------------------------------------------------------------
(* The integer test of the cascade *)

\* |trunc(v) - v| in ticks: what v has beyond the whole number next to it on
\* the side of zero
TruncDistance(v) == IF v >= 0 THEN v % Scale ELSE (-v) % Scale

PassesTruncTest(x) == x.kind = "float" /\ TruncDistance(x.v) < parser_data.int_tol

\* the candidate the cascade has returned
Accepted(k) ==
    p_pc = "returned" /\ p_i = k - 1 /\ p_ret # PyNone /\ p_ret = Candidate(k).val

JustBelowOne(x) == x.kind = "float" /\ Scale - Resolution < x.v /\ x.v < Scale

-----------------------------------------------------------------------------
(* Two models with a file for the same respondent and run id *)

\* the file is collected: off the blacklist, run id and model allowed
Collected(file) ==
    /\ ~InList(file.a_id, c_cfg.assign_id_blacklist)
    /\ InList(file.run_id, c_cfg.ordered_run_ids)
    /\ InList(file.llm, c_cfg.llms)

\* the positions, among the files seen, of the collected files of the
\* respondent and run id
FilesOf(a_id, run_id) ==
    { n \in 1..c_i : /\ Collected(c_files[n])
                     /\ c_files[n].a_id = a_id
                     /\ c_files[n].run_id = run_id }

\* the score the surviving results of the respondent hold for the cluster:
\* that of the newest run holding a record of it
SurvivingScore(aid_result, name) ==
    IF LatestClusterOutput(c_cfg, aid_result, name, 1) = None THEN None
    ELSE Get(LatestClusterOutput(c_cfg, aid_result, name, 1)).llm_score

\* C24: the collected results hold, for a respondent and a run id, the file
\* walked last among the collected files of the two, whatever its model;
\* every respondent _keep_only_latest has been called for has one row, whose
\* values are those of the surviving results and whose model is the one
\* stored under the run id inserted first for the respondent.
C24_KeyedByRespondentAndRun ==
    /\ \A n \in 1..Len(result_by_aid) :
          \A m \in 1..Len(result_by_aid[n].v) :
              LET a_id == result_by_aid[n].k
                  run_id == result_by_aid[n].v[m].k
                  kept == result_by_aid[n].v[m].v
              IN /\ FilesOf(a_id, run_id) # {}
                 /\ kept.llm = c_files[SetMax(FilesOf(a_id, run_id))].llm
                 /\ kept.data = DataByName(c_files[SetMax(FilesOf(a_id, run_id))].data,
                                           Len(c_files[SetMax(FilesOf(a_id, run_id))].data))
    /\ \A n \in 1..Len(result_by_aid) :
          n <= c_k =>
              /\ Len(clean_results) = c_k
              /\ clean_results[n].k = result_by_aid[n].k
              /\ clean_results[n].v.llm = result_by_aid[n].v[1].v.llm
              /\ \A m \in 1..Len(all_cluster_names) :
                    DictGet(clean_results[n].v.data, all_cluster_names[m])
                       = SurvivingScore(result_by_aid[n].v, all_cluster_names[m])
    /\ c_pc = "done" => AssignIdColumn = DictKeys(result_by_aid)

====
